---- MODULE Spec2Model ----
(***************************************************************************)
(* A model of the RAG chat server: the REST handlers of server/routes.ts   *)
(* over the in-memory chatMessages array, the settings table and the       *)
(* Qdrant vector service; MilvusService with its in-memory cosine scan;    *)
(* and the memory evaluator with its regex fallback.                       *)
(*                                                                         *)
(* Every handler is cut at its await points: one action runs the           *)
(* synchronous code from one await to the next.  External calls (OpenAI,   *)
(* Qdrant, Milvus, PostgreSQL) return or throw nondeterministically.       *)
(***************************************************************************)
EXTENDS Integers, Sequences, FiniteSets, TLC

\* ------------------------------------------------------------------ bounds
\* Requests the server receives in one behaviour.
MaxReq == 3
\* Requests received in one behaviour of the fair specification.
MaxReqLive == 2
\* Requests (handlers and background saves) in progress at one time.
MaxInFlight == 2
\* insertVector and searchSimilar calls on the MilvusService in one behaviour.
MaxMilvusCalls == 3
\* evaluateMemoryValue calls in one behaviour.
MaxEvals == 2
\* PineconeService.connect calls in one behaviour.
MaxConnects == 3
\* setSetting calls in one behaviour.
MaxSets == 3
\* Chat messages created in the two storages in one behaviour.
MaxStored == 3
\* Presses of Send or Enter on the chat page in one behaviour.
MaxSubmits == 3
\* Clicks on a save checkbox of the chat page in one behaviour.
MaxPatches == 2
\* setSetting calls on the cached settings in one behaviour.
MaxCacheSets == 2

\* --------------------------------------------------------------- variables
VARIABLES
  chatMessages,     \* routes.ts: let chatMessages: ChatMessage[] (ids into heap)
  heap,             \* the ChatMessage objects still referenced, by id
  vecStore,         \* the points held by the Qdrant collection
  qdrantConnected,  \* QdrantService.isConnected
  settings,         \* the settings table: key -> value
  reqs,             \* the HTTP requests in progress or just answered
  started,          \* number of requests received so far
  quota,            \* number of requests this behaviour may receive
  client,           \* MilvusService.client is not null
  isConnected,      \* MilvusService.isConnected
  inMemoryVectors,  \* MilvusService.inMemoryVectors
  collection,       \* the rows of the Milvus collection chat_responses
  vectorResponses,  \* the rows of the database table vector_responses
  milvusCalls,      \* the MilvusService calls in progress, one per method
  milvusLeft,       \* number of MilvusService calls this behaviour may make
  evalCall,         \* the evaluateMemoryValue call in progress or just ended
  evalLeft,         \* number of evaluateMemoryValue calls this behaviour may make
  pinecone,         \* PineconeService: its fields and its connect calls
  postPair,         \* two POST /api/messages requests against one settings store
  settingsTable,    \* database.ts: the rows of table settings and the calls on it
  storages,         \* storage.ts: a MemStorage and a DatabaseStorage given the same calls
  chatPage,         \* chat.tsx: one browser page, its requests and the server's array
  settingsCache     \* part_009: the settings table, its cache and the setSetting calls

routeVars == <<chatMessages, heap, vecStore, qdrantConnected, settings, reqs,
               started, quota>>

milvusVars == <<client, isConnected, inMemoryVectors, collection, vectorResponses,
                milvusCalls, milvusLeft>>

evalVars == <<evalCall, evalLeft>>

\* The services the route handlers of routes.ts do not use.
\* The units modelled on their own, one variable each.
unitVars == <<pinecone, postPair, settingsTable, storages, chatPage, settingsCache>>

exceptPinecone == <<postPair, settingsTable, storages, chatPage, settingsCache>>

exceptPostPair == <<pinecone, settingsTable, storages, chatPage, settingsCache>>

exceptSettingsTable == <<pinecone, postPair, storages, chatPage, settingsCache>>

exceptStorages == <<pinecone, postPair, settingsTable, chatPage, settingsCache>>

exceptChatPage == <<pinecone, postPair, settingsTable, storages, settingsCache>>

exceptSettingsCache == <<pinecone, postPair, settingsTable, storages, chatPage>>

serviceVars == <<milvusVars, evalVars, unitVars>>

vars == <<routeVars, milvusVars, evalVars, unitVars>>

\* ----------------------------------------------------------------- helpers
Range(s) == {s[i] : i \in 1..Len(s)}

Min(a, b) == IF a < b THEN a ELSE b

Max(a, b) == IF a > b THEN a ELSE b

\* Array.prototype.findIndex, 1-based; 0 when no element matches (JS: -1).
IndexOf(s, x) ==
  IF x \in Range(s) THEN CHOOSE i \in 1..Len(s) : s[i] = x /\ \A j \in 1..(i-1) : s[j] # x
  ELSE 0

\* ------------------------------------------------------- request payloads
\* A JSON value of req.body.content: a string, a number, or absent.
Str(v) == [t |-> "string", v |-> v]

Num(v) == [t |-> "number", n |-> v]

Undefined == [t |-> "undefined"]

Null == [t |-> "null"]

\* A JSON array.
Arr(items) == [t |-> "array", items |-> items]

\* x === undefined, for a JSON value or a number.
IsUndefined(x) == "t" \in DOMAIN x /\ x.t = "undefined"

QueryTexts == {"q1", "q2"}

BodyContents == {Str(q) : q \in QueryTexts} \cup {Str(""), Num(5), Undefined}

\* routes.ts:41  !(!content || typeof content !== "string")
ContentOk(c) == c.t = "string" /\ c.v # ""

\* Texts the generation API may return.
GenTexts == {"a1", "a2"}

\* The generation API returns a text or throws (an API error, the timeout).
GenOutcomes == {[ok |-> FALSE, text |-> ""]} \cup {[ok |-> TRUE, text |-> t] : t \in GenTexts}

\* ------------------------------------------------------------- messages
UserMessage(id, content, now) ==
  [id |-> id, content |-> content, role |-> "user", timestamp |-> now,
   sources |-> <<>>]

\* An assistant message whose flag waits for the store to confirm the save.
AssistantMessageUnsaved(id, ai, now, save) ==
  [id |-> id, content |-> ai.content, role |-> "assistant", timestamp |-> now,
   sources |-> ai.sources, savedToVector |-> FALSE]

AssistantMessage(id, ai, now, save) ==
  [id |-> id, content |-> ai.content, role |-> "assistant", timestamp |-> now,
   sources |-> ai.sources, savedToVector |-> save]

\* The array as the client sees it.
ChatList == [i \in 1..Len(chatMessages) |-> heap[chatMessages[i]]]

\* ------------------------------------------------------------- settings
\* database.ts:27-32  the keys of the settings table.
SettingKeys ==
  {"systemPrompt", "userPromptTemplate", "userPromptNoContext", "model",
   "temperature", "maxTokens"}

\* database.ts:26-33  the rows initializeDatabase inserts.
DefaultSettings ==
  [k \in SettingKeys |->
     CASE k = "systemPrompt" -> "You are a helpful AI assistant."
       [] k = "userPromptTemplate" ->
            "Context: {context}\n\nUser Question: {query}\n\nPlease provide a comprehensive answer based on the context and your knowledge."
       [] k = "userPromptNoContext" ->
            "User Question: {query}\n\nPlease provide a comprehensive and helpful answer."
       [] k = "model" -> "gpt-4o-mini"
       [] k = "temperature" -> "1.0"
       [] k = "maxTokens" -> "2048"]

\* The table before any row was written.
EmptySettings == [k \in {} |-> ""]

\* settings[key] of the Record<string, string> getAllSettings builds.
Get(s, k) == IF k \in DOMAIN s THEN Str(s[k]) ELSE Undefined

\* parseFloat on the stored strings, in tenths; NaN for undefined and for
\* text that does not start with a number.
NaN == [nan |-> TRUE]

Number(v) == [nan |-> FALSE, v |-> v]

ParseFloat(x) ==
  IF x.t # "string" THEN NaN
  ELSE CASE x.v = "1.0" -> Number(10)
         [] x.v = "1" -> Number(10)
         [] x.v = "0" -> Number(0)
         [] x.v = "2048" -> Number(20480)
         [] OTHER -> NaN

\* parseInt on the stored strings: the leading integer digits.
ParseInt(x) ==
  IF x.t # "string" THEN NaN
  ELSE CASE x.v = "1.0" -> Number(1)
         [] x.v = "1" -> Number(1)
         [] x.v = "0" -> Number(0)
         [] x.v = "2048" -> Number(2048)
         [] OTHER -> NaN

\* JS truthiness of a string-or-undefined value and of a number.
Truthy(x) == x.t = "string" /\ x.v # ""

TruthyNum(n) == ~n.nan /\ n.v # 0

\* routes.ts:75-77 and 95-97  the options built from the settings read.
OptionsOf(s) ==
  [temperature |-> ParseFloat(Get(s, "temperature")),
   model |-> Get(s, "model"),
   maxTokens |-> ParseInt(Get(s, "maxTokens"))]

\* routes.ts:80-91  the message of the 400 the settings earn, "" when valid.
SettingsError(s) ==
  LET o == OptionsOf(s) IN
  IF ~Truthy(o.model)
    THEN "Model not configured. Please set model in settings."
  ELSE IF o.temperature.nan
    THEN "Temperature not configured. Please set temperature in settings."
  ELSE IF ~TruthyNum(o.maxTokens)
    THEN "Max tokens not configured. Please set maxTokens in settings."
  ELSE IF ~Truthy(Get(s, "systemPrompt"))
    THEN "System prompt not configured. Please set system prompt in settings."
  ELSE ""

\* Options in which a field of the request body wins over the stored setting.
RequestOptionsFromBody(body, s) ==
  [temperature |-> IF IsUndefined(body.temperature)
                     THEN ParseFloat(Get(s, "temperature"))
                     ELSE Number(body.temperature.n * 10),
   model |-> IF IsUndefined(body.model) THEN Get(s, "model") ELSE body.model,
   maxTokens |-> IF IsUndefined(body.maxTokens)
                   THEN ParseInt(Get(s, "maxTokens"))
                   ELSE Number(body.maxTokens.n)]

\* routes.ts:74-77, 94-98  "ALWAYS use database settings only - never use
\* request parameters": the options passed to generateChatResponse.
RequestOptions(body, s) == OptionsOf(s)

\* ----------------------------------------------------------- generation
\* No options and no settings: generateChatResponse(prompt) as the memory
\* evaluator calls it.
NoOptions == [temperature |-> Undefined, model |-> Undefined, maxTokens |-> Undefined]

\* openai.ts:30-33  the validation error, "" when the call goes out.
GenerateValidation(options, s) ==
  IF IsUndefined(options.temperature) THEN "Temperature parameter is required"
  ELSE IF ~Truthy(options.model)
    THEN "Model parameter is required"
  ELSE IF IsUndefined(options.maxTokens) \/ ~TruthyNum(options.maxTokens)
    THEN "MaxTokens parameter is required"
  ELSE IF ~Truthy(Get(s, "systemPrompt"))
    THEN "System prompt not configured in database"
  ELSE ""

\* A prompt that takes every previous conversation it is given.
ContextLimitNone(n) == n

\* openai.ts:42  how many previous conversations reach the prompt.
ContextLimit(n) == Min(n, 2)

\* openai.ts:36-49  the input string, by its parts in order.
BuildInput(systemPrompt, prev, query) ==
  [system |-> systemPrompt,
   context |-> SubSeq(prev, 1, ContextLimit(Len(prev))),
   query |-> query]

\* openai.ts:53-58  the request sent to the responses API.
GenerationCall(query, prev, options, s) ==
  [model |-> options.model.v,
   input |-> BuildInput(s["systemPrompt"], prev, query),
   max_output_tokens |-> options.maxTokens.v]

\* A response that loses the generated text.
ChatResponseEmpty(text, prev) ==
  [content |-> "", sources |-> IF Len(prev) > 0 THEN <<"Context">> ELSE <<>>]

\* openai.ts:67-70
ChatResponse(text, prev) ==
  [content |-> text, sources |-> IF Len(prev) > 0 THEN <<"Context">> ELSE <<>>]

\* ------------------------------------------------ embeddings and Qdrant
\* The embedding API is a function of the text; the model keeps the text
\* it was computed from.
Embedding(text) == [of |-> text]

Topic(text) == IF text \in {"q1", "a1"} THEN 1 ELSE IF text \in {"q2", "a2"} THEN 2 ELSE 0

\* Cosine score of two embeddings, in hundredths: equal texts score 1.00,
\* texts on one topic 0.80, unrelated texts 0.30.
Similarity(e1, e2) ==
  IF e1.of = e2.of THEN 100
  ELSE IF Topic(e1.of) # 0 /\ Topic(e1.of) = Topic(e2.of) THEN 80
  ELSE 30

\* Qdrant ranks by score; equal scores by id.
Better(e, x, y) ==
  \/ Similarity(e, x.embedding) > Similarity(e, y.embedding)
  \/ Similarity(e, x.embedding) = Similarity(e, y.embedding) /\ x.id <= y.id

RECURSIVE TopK(_, _, _)
TopK(S, e, k) ==
  IF S = {} \/ k = 0 THEN <<>>
  ELSE LET best == CHOOSE x \in S : \A y \in S : Better(e, x, y)
       IN <<best>> \o TopK(S \ {best}, e, k - 1)

\* part_009:132-146  client.search with score_threshold and limit, mapped.
QdrantSearch(store, e, threshold, limit) ==
  LET hits == TopK({p \in store : Similarity(e, p.embedding) >= threshold}, e, limit)
  IN [i \in 1..Len(hits) |->
        [id |-> hits[i].id, query |-> hits[i].query, response |-> hits[i].response,
         sources |-> hits[i].sources,
         similarity |-> Similarity(e, hits[i].embedding)]]

\* routes.ts:120-127 and 169-176  the record handed to insertVector.
VectorRecord(id, query, response, sources) ==
  [id |-> id, query |-> query, response |-> response,
   embedding |-> Embedding(response), sources |-> sources]

\* routes.ts:62-65
PreviousConversations(results) ==
  [i \in 1..Len(results) |-> [query |-> results[i].query, response |-> results[i].response]]

\* String.prototype.trim on the texts of the model.
Trim(t) ==
  CASE t = "q1 " -> "q1"
    [] t = " a1" -> "a1"
    [] t = " q2 " -> "q2"
    [] t = "  " -> ""
    [] OTHER -> t

\* ------------------------------------------------------------- requests
Reqs == 1..MaxInFlight

\* A free slot: no request is using it.
IdleReq ==
  [kind |-> "none", pc |-> "idle", body |-> Undefined, prev |-> <<>>, todo |-> <<>>,
   user |-> 0, asst |-> 0, target |-> 0, query |-> "", match |-> 0,
   call |-> Undefined, gen |-> "", resp |-> <<>>, last |-> "", bg |-> "none",
   inserts |-> 0, appended |-> <<>>, was |-> FALSE]

NewReq(kind, body) == [IdleReq EXCEPT !.kind = kind, !.body = body, !.pc = "start"]

ErrBody(text) == [message |-> text]

\* A handler that sends its response and goes on instead of returning.
RespondNoReturn(rq, status, body) ==
  [rq EXCEPT !.resp = Append(@, [status |-> status, body |-> body])]

\* res.status(status).json(body): the response is sent and the handler ends.
Respond(rq, status, body) ==
  [rq EXCEPT !.resp = Append(@, [status |-> status, body |-> body]),
             !.pc = "done"]

\* The outcome of the external call the handler was waiting for.
Event(rq, e) == [rq EXCEPT !.last = e]

\* Date.now() as a logical time: the number of requests received so far.
Now == started

\* The handler has answered and its background save, if any, has ended:
\* nothing of the request remains in the process.
Finished(rq) == rq.pc = "done" /\ rq.bg \notin {"embed", "insert"}

Free(rq) == rq.pc = "idle" \/ Finished(rq)

\* A request arrives when fewer than MaxInFlight are in progress; it takes
\* the first free slot.
CanStart(r) ==
  /\ started < quota
  /\ Free(reqs[r])
  /\ \A q \in Reqs : q < r => ~Free(reqs[q])

\* The slots once request rq has arrived in slot r: the records of the
\* requests that finished before are dropped.
Arrive(rs, r, rq) ==
  [q \in Reqs |-> IF q = r THEN rq ELSE IF Finished(rs[q]) THEN IdleReq ELSE rs[q]]

\* The objects still referenced by the array or by a request.
Live(list, rs) ==
  Range(list) \cup UNION {{rs[q].user, rs[q].asst, rs[q].target} : q \in Reqs}

\* Garbage collection of the message objects.
Collect(h, list, rs) == [id \in (DOMAIN h) \cap Live(list, rs) |-> h[id]]

\* randomUUID: an id no object has.
FreshId(h) == CHOOSE id \in 1..(Cardinality(DOMAIN h) + 1) : id \notin DOMAIN h

FreshVec(store) ==
  CHOOSE id \in 1..(Cardinality(store) + MaxInFlight + 1) :
    /\ \A p \in store : p.id # id
    /\ \A q \in Reqs : reqs[q].match # id

\* A search block that reports the failure to the client.
SearchFailedSurfaced(rq, e) ==
  Respond(Event(rq, e), 500, [message |-> "Failed to process message"])

\* routes.ts:67-72  the catch of the search block: the error is logged and
\* the handler goes on to read the settings.
SearchFailed(rq, e) == [Event(rq, e) EXCEPT !.pc = "settings"]

\* A handler that calls the generation first.
AfterUserPushGenerate == "generate"

\* What the handler awaits next once the user message is pushed (routes.ts:58).
AfterUserPush == "embed"

\* The catch block of the fire-and-forget save (routes.ts:128-130): it logs,
\* and leaves the message and the response as they are.
SaveFailed(h, id) == h

\* ------------------------------------------------- GET /api/messages
GetMessages(r) ==
  /\ CanStart(r)
  /\ reqs' = Arrive(reqs, r, Respond(NewReq("GET_messages", Undefined), 200, Arr(ChatList)))
  /\ heap' = Collect(heap, chatMessages, reqs')
  /\ started' = started + 1
  /\ UNCHANGED <<chatMessages, vecStore, qdrantConnected, settings, quota, serviceVars>>

\* ------------------------------------------------ POST /api/messages
\* routes.ts:36-58  validate, push the user message, call generateEmbedding.
PostStart(r) ==
  /\ CanStart(r)
  /\ \E content \in BodyContents, save \in BOOLEAN :
       LET rq == NewReq("POST_messages", [content |-> content, saveToVector |-> save])
           id == FreshId(heap)
       IN IF ~ContentOk(content)
          THEN /\ reqs' = Arrive(reqs, r, Respond(rq, 400, ErrBody("Content is required")))
               /\ chatMessages' = chatMessages
               /\ heap' = Collect(heap, chatMessages, reqs')
          ELSE /\ reqs' = Arrive(reqs, r,
                    [rq EXCEPT !.pc = AfterUserPush, !.user = id,
                                                   !.appended = <<id>>])
               /\ chatMessages' = Append(chatMessages, id)
               /\ heap' = Collect((id :> UserMessage(id, content.v, Now)) @@ heap,
                                  chatMessages', reqs')
  /\ started' = started + 1
  /\ UNCHANGED <<vecStore, qdrantConnected, settings, quota, serviceVars>>

\* routes.ts:58-59, 67-72  the query embedding returns or throws; on success
\* searchSimilar is called, which throws at once when Qdrant is not connected.
PostEmbedReturn(r) ==
  /\ reqs[r].kind = "POST_messages" /\ reqs[r].pc = "embed"
  /\ \E ok \in BOOLEAN :
       reqs' = [reqs EXCEPT ![r] =
         IF ~ok
           THEN SearchFailed(@, "embed_throw")
         ELSE IF ~qdrantConnected
           THEN SearchFailed(@, "search_throw")
         ELSE [Event(@, "embed_ok") EXCEPT !.pc = "search"]]
  /\ UNCHANGED <<chatMessages, heap, vecStore, qdrantConnected, settings, started, quota, serviceVars>>

\* routes.ts:59-72  the similarity search returns or throws; getAllSettings
\* is called next.
PostSearchReturn(r) ==
  /\ reqs[r].kind = "POST_messages" /\ reqs[r].pc = "search"
  /\ \E ok \in BOOLEAN :
       LET results == QdrantSearch(vecStore, Embedding(reqs[r].body.content.v), 70, 3)
       IN reqs' = [reqs EXCEPT ![r] =
            IF ok
              THEN [Event(@, "search_ok") EXCEPT
                      !.pc = "settings", !.prev = PreviousConversations(results)]
            ELSE SearchFailed(@, "search_throw")]
  /\ UNCHANGED <<chatMessages, heap, vecStore, qdrantConnected, settings, started, quota, serviceVars>>

\* routes.ts:72-98  the settings are read (or the read throws), validated,
\* and generateChatResponse is called with them.
PostSettingsReturn(r) ==
  /\ reqs[r].kind = "POST_messages" /\ reqs[r].pc = "settings"
  /\ \E ok \in BOOLEAN :
       LET rq == reqs[r]
           o == RequestOptions(rq.body, settings)
       IN reqs' = [reqs EXCEPT ![r] =
            IF ~ok
              THEN Respond(Event(rq, "settings_throw"), 500, ErrBody("Failed to process message"))
            ELSE IF SettingsError(settings) # ""
              THEN Respond(Event(rq, "settings_ok"), 400, ErrBody(SettingsError(settings)))
            ELSE IF GenerateValidation(o, settings) # ""
              THEN Respond(Event(rq, "gen_throw"), 500,
                           ErrBody("Failed to process message"))
            ELSE [Event(rq, "settings_ok") EXCEPT
                    !.pc = "generate",
                    !.call = GenerationCall(rq.body.content.v, rq.prev, o, settings)]]
  /\ UNCHANGED <<chatMessages, heap, vecStore, qdrantConnected, settings, started, quota, serviceVars>>

\* routes.ts:94-142  generation returns or throws; on success the assistant
\* message is pushed, the save is started in the background when asked for,
\* and the response is sent.
PostGenerateReturn(r) ==
  /\ reqs[r].kind = "POST_messages" /\ reqs[r].pc = "generate"
  /\ \E out \in GenOutcomes :
       LET rq == reqs[r]
           ai == ChatResponse(out.text, rq.prev)
           id == FreshId(heap)
           am == AssistantMessage(id, ai, Now, rq.body.saveToVector)
       IN IF ~out.ok
          THEN /\ reqs' = [reqs EXCEPT ![r] =
                    Respond(Event(rq, "gen_throw"), 500, ErrBody("Failed to process message"))]
               /\ UNCHANGED <<heap, chatMessages>>
          ELSE /\ heap' = (id :> am) @@ heap
               /\ chatMessages' = Append(chatMessages, id)
               /\ reqs' = [reqs EXCEPT ![r] =
                    [Respond(Event(rq, "gen_ok"), 200,
                             [userMessage |-> heap[rq.user], assistantMessage |-> am,
                              sources |-> ai.sources])
                     EXCEPT !.asst = id,
                            !.gen = out.text,
                            !.appended = Append(@, id),
                            !.bg = IF rq.body.saveToVector THEN "embed" ELSE "none"]]
  /\ UNCHANGED <<vecStore, qdrantConnected, settings, started, quota, serviceVars>>

\* routes.ts:117-131  the background save: the embedding of the answer
\* returns or throws; on success insertVector is called.
BgEmbedReturn(r) ==
  /\ reqs[r].kind = "POST_messages" /\ reqs[r].bg = "embed"
  /\ \E ok \in BOOLEAN :
       IF ~ok
       THEN /\ reqs' = [reqs EXCEPT ![r].bg = "failed"]
            /\ heap' = SaveFailed(heap, reqs[r].asst)
       ELSE IF ~qdrantConnected
       THEN /\ reqs' = [reqs EXCEPT ![r].bg = "failed", ![r].inserts = @ + 1]
            /\ heap' = SaveFailed(heap, reqs[r].asst)
       ELSE /\ reqs' = [reqs EXCEPT ![r].bg = "insert", ![r].inserts = @ + 1]
            /\ heap' = heap
  /\ UNCHANGED <<chatMessages, vecStore, qdrantConnected, settings, started, quota, serviceVars>>

\* part_009:97-116  the upsert returns or throws; the throw is logged.
BgInsertReturn(r) ==
  /\ reqs[r].kind = "POST_messages" /\ reqs[r].bg = "insert"
  /\ \E ok \in BOOLEAN :
       LET rq == reqs[r]
           rec == VectorRecord(FreshVec(vecStore), rq.body.content.v,
                               heap[rq.asst].content, heap[rq.asst].sources)
       IN IF ok
          THEN /\ vecStore' = vecStore \cup {rec}
               /\ reqs' = [reqs EXCEPT ![r].bg = "ok"]
               /\ heap' = heap
          ELSE /\ reqs' = [reqs EXCEPT ![r].bg = "failed"]
               /\ heap' = SaveFailed(heap, rq.asst)
               /\ vecStore' = vecStore
  /\ UNCHANGED <<chatMessages, qdrantConnected, settings, started, quota, serviceVars>>

\* ------------------------------- PATCH /api/messages/:id/vector-save
\* routes.ts:163-164, 181-182  the element before the message, when it is a
\* user message: 0 when there is none.
UserMessageBefore(list, h, id) ==
  LET idx == IndexOf(list, id)
  IN IF idx > 1 /\ h[list[idx - 1]].role = "user" THEN list[idx - 1] ELSE 0

\* A flag written whatever the role of the message.
SetSavedAnyRole(h, id, save) ==
  [h EXCEPT ![id] = [k \in DOMAIN h[id] \cup {"savedToVector"} |->
                       IF k = "savedToVector" THEN save ELSE h[id][k]]]

\* routes.ts:157-158  the flag is written on assistant messages only.
SetSaved(h, id, save) ==
  IF h[id].role = "assistant" THEN [h EXCEPT ![id].savedToVector = save] ELSE h

\* routes.ts:148-206  find the message, flip the flag, start the save or
\* the unsave when the message before it is a user message.  Id 0 stands
\* for an id no message of the array has.
PatchStart(r) ==
  /\ CanStart(r)
  /\ \E id \in Range(chatMessages) \cup {0}, save \in BOOLEAN :
       LET rq == [NewReq("PATCH_vector_save", [id |-> id, saveToVector |-> save])
                    EXCEPT !.target = id,
                           !.was = id \in Range(chatMessages)
                                   /\ heap[id].role = "assistant"
                                   /\ heap[id].savedToVector]
           um == UserMessageBefore(chatMessages, heap, id)
           h2 == SetSaved(heap, id, save)
       IN IF id \notin Range(chatMessages)
          THEN /\ reqs' = Arrive(reqs, r, Respond(rq, 404, ErrBody("Message not found")))
               /\ heap' = Collect(heap, chatMessages, reqs')
          ELSE /\ reqs' = Arrive(reqs, r,
                    IF heap[id].role = "assistant" /\ um # 0
                    THEN [rq EXCEPT
                            !.pc = IF save THEN "pembed" ELSE "uembed",
                            !.user = um, !.query = heap[um].content]
                    ELSE Respond(rq, 200, h2[id]))
               /\ heap' = Collect(h2, chatMessages, reqs')
  /\ started' = started + 1
  /\ UNCHANGED <<chatMessages, vecStore, qdrantConnected, settings, quota, serviceVars>>

\* routes.ts:167-169, 207-210  the embedding returns or throws; on success
\* insertVector is called, which throws at once when Qdrant is not connected.
PatchEmbedReturn(r) ==
  /\ reqs[r].kind = "PATCH_vector_save" /\ reqs[r].pc = "pembed"
  /\ \E ok \in BOOLEAN :
       reqs' = [reqs EXCEPT ![r] =
         IF ~ok
           THEN Respond(Event(@, "embed_throw"), 500, ErrBody("Failed to update message"))
         ELSE IF ~qdrantConnected
           THEN Respond([Event(@, "insert_throw") EXCEPT !.inserts = @ + 1],
                        500, ErrBody("Failed to update message"))
         ELSE [Event(@, "embed_ok") EXCEPT
                 !.pc = "pinsert", !.inserts = @ + 1]]
  /\ UNCHANGED <<chatMessages, heap, vecStore, qdrantConnected, settings, started, quota, serviceVars>>

\* routes.ts:169-177, 206-210  the upsert returns or throws.
PatchInsertReturn(r) ==
  /\ reqs[r].kind = "PATCH_vector_save" /\ reqs[r].pc = "pinsert"
  /\ \E ok \in BOOLEAN :
       LET rq == reqs[r]
           m == heap[rq.target]
           rec == VectorRecord(FreshVec(vecStore), rq.query, m.content, m.sources)
       IN IF ok
          THEN /\ vecStore' = vecStore \cup {rec}
               /\ reqs' = [reqs EXCEPT ![r] = Respond(Event(rq, "insert_ok"), 200, m)]
          ELSE /\ reqs' = [reqs EXCEPT ![r] =
                    Respond(Event(rq, "insert_throw"), 500, ErrBody("Failed to update message"))]
               /\ vecStore' = vecStore
  /\ UNCHANGED <<chatMessages, heap, qdrantConnected, settings, started, quota, serviceVars>>

\* routes.ts:186-188, 199-206  unsave: the embedding returns or throws; the
\* throw is logged and the message is returned.
UnsaveEmbedReturn(r) ==
  /\ reqs[r].kind = "PATCH_vector_save" /\ reqs[r].pc = "uembed"
  /\ \E ok \in BOOLEAN :
       reqs' = [reqs EXCEPT ![r] =
         IF ~ok
           THEN Respond(Event(@, "embed_throw"), 200, heap[@.target])
         ELSE IF ~qdrantConnected
           THEN Respond(Event(@, "search_throw"), 200, heap[@.target])
         ELSE [Event(@, "embed_ok") EXCEPT !.pc = "usearch"]]
  /\ UNCHANGED <<chatMessages, heap, vecStore, qdrantConnected, settings, started, quota, serviceVars>>

\* routes.ts:191-194  the first result whose trimmed response and query are
\* those of the exchange: its id, 0 when there is none.
ExactMatch(results, content, query) ==
  LET hit(i) == Trim(results[i].response) = Trim(content)
                /\ Trim(results[i].query) = Trim(query)
  IN IF \E i \in 1..Len(results) : hit(i)
     THEN results[CHOOSE i \in 1..Len(results) :
                    hit(i) /\ \A j \in 1..(i - 1) : ~hit(j)].id
     ELSE 0

\* routes.ts:188-206  the search returns or throws; deleteVector is called
\* for the exact match.
UnsaveSearchReturn(r) ==
  /\ reqs[r].kind = "PATCH_vector_save" /\ reqs[r].pc = "usearch"
  /\ \E ok \in BOOLEAN :
       LET rq == reqs[r]
           m == heap[rq.target]
           results == QdrantSearch(vecStore, Embedding(m.content), 95, 5)
           match == ExactMatch(results, m.content, rq.query)
       IN reqs' = [reqs EXCEPT ![r] =
            IF ~ok THEN Respond(Event(rq, "search_throw"), 200, m)
            ELSE IF match = 0 THEN Respond(Event(rq, "search_ok"), 200, m)
            ELSE [Event(rq, "search_ok") EXCEPT
                    !.pc = "udelete", !.match = match]]
  /\ UNCHANGED <<chatMessages, heap, vecStore, qdrantConnected, settings, started, quota, serviceVars>>

\* routes.ts:197-206, part_009:193-202  the delete returns or throws.
UnsaveDeleteReturn(r) ==
  /\ reqs[r].kind = "PATCH_vector_save" /\ reqs[r].pc = "udelete"
  /\ \E ok \in BOOLEAN :
       LET rq == reqs[r]
       IN /\ vecStore' = IF ok THEN {p \in vecStore : p.id # rq.match} ELSE vecStore
          /\ reqs' = [reqs EXCEPT ![r] =
               Respond(Event(rq, IF ok THEN "delete_ok" ELSE "delete_throw"), 200,
                       heap[rq.target])]
  /\ UNCHANGED <<chatMessages, heap, qdrantConnected, settings, started, quota, serviceVars>>

\* ------------------------------------------ DELETE /api/clear-database
\* What the handler leaves in the vector store (routes.ts:277: the chat
\* messages only).
ClearedStore(store) == store

ClearDatabase(r) ==
  /\ CanStart(r)
  /\ chatMessages' = <<>>
  /\ vecStore' = ClearedStore(vecStore)
  /\ reqs' = Arrive(reqs, r,
       Respond(NewReq("DELETE_clear_database", Undefined), 200,
               ErrBody("Chat history cleared successfully")))
  /\ heap' = Collect(heap, chatMessages', reqs')
  /\ started' = started + 1
  /\ UNCHANGED <<qdrantConnected, settings, quota, serviceVars>>

\* -------------------------------------------- POST /api/search-similar
SearchBodies == {[query |-> Str("q1")], [query |-> Str("")], [query |-> Undefined]}

\* routes.ts:216-222  validate the query, call generateEmbedding.
SearchSimilarStart(r) ==
  /\ CanStart(r)
  /\ \E body \in SearchBodies :
       LET rq == NewReq("POST_search_similar", body)
       IN reqs' = Arrive(reqs, r,
            IF ~ContentOk(body.query)
            THEN Respond(rq, 400, ErrBody("Query is required"))
            ELSE [rq EXCEPT !.pc = "sembed"])
  /\ heap' = Collect(heap, chatMessages, reqs')
  /\ started' = started + 1
  /\ UNCHANGED <<chatMessages, vecStore, qdrantConnected, settings, quota, serviceVars>>

\* routes.ts:222-233  the embedding returns or throws; searchSimilar is
\* called with the default threshold 0.7 and limit 10.
SearchSimilarEmbedReturn(r) ==
  /\ reqs[r].kind = "POST_search_similar" /\ reqs[r].pc = "sembed"
  /\ \E ok \in BOOLEAN :
       reqs' = [reqs EXCEPT ![r] =
         IF ~ok
           THEN Respond(Event(@, "embed_throw"), 500, ErrBody("Failed to search similar responses"))
         ELSE IF ~qdrantConnected
           THEN Respond(Event(@, "search_throw"), 500, ErrBody("Failed to search similar responses"))
         ELSE [Event(@, "embed_ok") EXCEPT !.pc = "ssearch"]]
  /\ UNCHANGED <<chatMessages, heap, vecStore, qdrantConnected, settings, started, quota, serviceVars>>

SearchSimilarReturn(r) ==
  /\ reqs[r].kind = "POST_search_similar" /\ reqs[r].pc = "ssearch"
  /\ \E ok \in BOOLEAN :
       reqs' = [reqs EXCEPT ![r] =
         IF ok
           THEN Respond(Event(@, "search_ok"), 200,
                        Arr(QdrantSearch(vecStore, Embedding(@.body.query.v), 70, 10)))
         ELSE Respond(Event(@, "search_throw"), 500, ErrBody("Failed to search similar responses"))]
  /\ UNCHANGED <<chatMessages, heap, vecStore, qdrantConnected, settings, started, quota, serviceVars>>

\* ------------------------------------------------------ GET /api/status
\* routes.ts:239-241  checkOpenAIConnection is awaited through allSettled.
StatusStart(r) ==
  /\ CanStart(r)
  /\ reqs' = Arrive(reqs, r, [NewReq("GET_status", Undefined) EXCEPT !.pc = "status"])
  /\ heap' = Collect(heap, chatMessages, reqs')
  /\ started' = started + 1
  /\ UNCHANGED <<chatMessages, vecStore, qdrantConnected, settings, quota, serviceVars>>

\* routes.ts:243-249, openai.ts:92-100  the check answers true or false.
StatusReturn(r) ==
  /\ reqs[r].kind = "GET_status" /\ reqs[r].pc = "status"
  /\ \E up \in BOOLEAN :
       reqs' = [reqs EXCEPT ![r] =
         Respond(@, 200, [qdrant |-> qdrantConnected, openai |-> up])]
  /\ UNCHANGED <<chatMessages, heap, vecStore, qdrantConnected, settings, started, quota, serviceVars>>

\* ------------------------------------------------------- GET /api/stats
\* routes.ts:358-371  getTimeAgo over the minutes elapsed.
GetTimeAgo(diffMins) ==
  IF diffMins < 1 THEN "Just now"
  ELSE IF diffMins < 60 THEN <<diffMins, "min ago">>
  ELSE IF diffMins \div 60 < 24 THEN <<diffMins \div 60, "hour ago">>
  ELSE <<(diffMins \div 60) \div 24, "day ago">>

\* routes.ts:259, part_009:157-159  getCollectionStats throws at once when
\* Qdrant is not connected.
StatsStart(r) ==
  /\ CanStart(r)
  /\ reqs' = Arrive(reqs, r,
       IF ~qdrantConnected
       THEN Respond(NewReq("GET_stats", Undefined), 500, ErrBody("Failed to fetch stats"))
       ELSE [NewReq("GET_stats", Undefined) EXCEPT !.pc = "stats"])
  /\ heap' = Collect(heap, chatMessages, reqs')
  /\ started' = started + 1
  /\ UNCHANGED <<chatMessages, vecStore, qdrantConnected, settings, quota, serviceVars>>

\* routes.ts:259-271  the statistics return or throw.
StatsReturn(r) ==
  /\ reqs[r].kind = "GET_stats" /\ reqs[r].pc = "stats"
  /\ \E ok \in BOOLEAN :
       LET n == Len(chatMessages) IN
       reqs' = [reqs EXCEPT ![r] =
         IF ok
           THEN Respond(@, 200,
                  [totalResponses |-> Cardinality(vecStore), collectionSize |-> "N/A",
                   lastUpdated |-> IF n > 0
                                   THEN GetTimeAgo(Now - heap[chatMessages[n]].timestamp)
                                   ELSE "Never"])
         ELSE Respond(@, 500, ErrBody("Failed to fetch stats"))]
  /\ UNCHANGED <<chatMessages, heap, vecStore, qdrantConnected, settings, started, quota, serviceVars>>

\* ----------------------------------- GET /api/prompts, GET /api/settings
\* x || fallback on a setting.
OrDefault(x, fallback) == IF Truthy(x) THEN x.v ELSE fallback

\* routes.ts:289-292, 341-347  the bodies built from the settings read.
PromptsBody(s) == [systemPrompt |-> OrDefault(Get(s, "systemPrompt"), "You are a helpful AI assistant.")]

SettingsBody(s) ==
  [systemPrompt |-> OrDefault(Get(s, "systemPrompt"), "You are a helpful AI assistant."),
   model |-> OrDefault(Get(s, "model"), "gpt-4o-mini"),
   temperature |-> ParseFloat(Str(OrDefault(Get(s, "temperature"), "1.0"))),
   maxTokens |-> ParseInt(Str(OrDefault(Get(s, "maxTokens"), "2048")))]

ReadSettingsStart(r) ==
  /\ CanStart(r)
  /\ \E kind \in {"GET_prompts", "GET_settings"} :
       reqs' = Arrive(reqs, r, [NewReq(kind, Undefined) EXCEPT !.pc = "read"])
  /\ heap' = Collect(heap, chatMessages, reqs')
  /\ started' = started + 1
  /\ UNCHANGED <<chatMessages, vecStore, qdrantConnected, settings, quota, serviceVars>>

\* routes.ts:287-297, 339-352  getAllSettings returns or throws.
ReadSettingsReturn(r) ==
  /\ reqs[r].kind \in {"GET_prompts", "GET_settings"} /\ reqs[r].pc = "read"
  /\ \E ok \in BOOLEAN :
       reqs' = [reqs EXCEPT ![r] =
         IF ~ok
           THEN Respond(@, 500, ErrBody(IF @.kind = "GET_prompts"
                                        THEN "Failed to fetch system prompt"
                                        ELSE "Failed to update settings"))
         ELSE Respond(@, 200, IF @.kind = "GET_prompts" THEN PromptsBody(settings)
                              ELSE SettingsBody(settings))]
  /\ UNCHANGED <<chatMessages, heap, vecStore, qdrantConnected, settings, started, quota, serviceVars>>

\* ----------------------------------- PUT /api/prompts, PUT /api/settings
\* value.toString() of a JSON number or string.
ToStringJS(x) ==
  IF x.t = "string" THEN x.v
  ELSE CASE x.n = 0 -> "0"
         [] x.n = 1 -> "1"
         [] x.n = 5 -> "5"
         [] x.n = 2048 -> "2048"

PutBody(sp, model, temperature, maxTokens) ==
  [systemPrompt |-> sp, model |-> model, temperature |-> temperature,
   maxTokens |-> maxTokens]

PutBodies ==
  {PutBody(Undefined, Undefined, Undefined, Undefined),
   PutBody(Str("SP"), Undefined, Undefined, Undefined),
   PutBody(Str("SP"), Str("gpt-4o-mini"), Num(1), Num(2048)),
   PutBody(Undefined, Undefined, Str("abc"), Undefined),
   PutBody(Undefined, Undefined, Undefined, Num(0)),
   PutBody(Undefined, Undefined, Null, Undefined)}

\* routes.ts:324-329  the setSetting calls the body asks for, in order; a
\* null temperature or maxTokens has no toString and throws when reached.
Writes(kind, body) ==
  LET one(k, cond, v) == IF cond THEN <<[key |-> k, value |-> v]>> ELSE <<>>
      text(x) == IF x.t = "null" THEN Null ELSE Str(ToStringJS(x))
  IN one("systemPrompt", Truthy(body.systemPrompt), body.systemPrompt)
     \o (IF kind = "PUT_prompts" THEN <<>>
         ELSE one("model", Truthy(body.model), body.model)
              \o one("temperature", body.temperature.t # "undefined", text(body.temperature))
              \o one("maxTokens", body.maxTokens.t # "undefined", text(body.maxTokens)))

\* database.ts:59-72  INSERT ... ON CONFLICT (key) DO UPDATE.
SetSetting(s, key, value) == (key :> value) @@ s

\* The handler runs until its next setSetting, its response, or the throw
\* of a toString.
Continue(rq, okMessage, errMessage) ==
  IF rq.todo = <<>> THEN Respond(rq, 200, ErrBody(okMessage))
  ELSE IF rq.todo[1].value.t = "null" THEN Respond(rq, 500, ErrBody(errMessage))
  ELSE [rq EXCEPT !.pc = "write"]

PutOk(kind) ==
  IF kind = "PUT_prompts" THEN "System prompt updated successfully"
  ELSE "Settings updated successfully"

PutErr(kind) ==
  IF kind = "PUT_prompts" THEN "Failed to update system prompt"
  ELSE "Failed to update settings"

WriteSettingsStart(r) ==
  /\ CanStart(r)
  /\ \E kind \in {"PUT_prompts", "PUT_settings"}, body \in PutBodies :
       /\ reqs' = Arrive(reqs, r,
            Continue([NewReq(kind, body) EXCEPT !.todo = Writes(kind, body)],
                     PutOk(kind), PutErr(kind)))
  /\ heap' = Collect(heap, chatMessages, reqs')
  /\ started' = started + 1
  /\ UNCHANGED <<chatMessages, vecStore, qdrantConnected, settings, quota, serviceVars>>

\* routes.ts:300-336  one setSetting returns or throws.
WriteSettingsReturn(r) ==
  /\ reqs[r].kind \in {"PUT_prompts", "PUT_settings"} /\ reqs[r].pc = "write"
  /\ \E ok \in BOOLEAN :
       LET rq == reqs[r]
           w == rq.todo[1]
       IN IF ok
          THEN /\ settings' = SetSetting(settings, w.key, w.value.v)
               /\ reqs' = [reqs EXCEPT ![r] =
                    Continue([rq EXCEPT !.todo = Tail(@)], PutOk(rq.kind), PutErr(rq.kind))]
          ELSE /\ settings' = settings
               /\ reqs' = [reqs EXCEPT ![r] = Respond(rq, 500, ErrBody(PutErr(rq.kind)))]
  /\ UNCHANGED <<chatMessages, heap, vecStore, qdrantConnected, started, quota, serviceVars>>

\* ======================================================= MilvusService
\* Embeddings are vectors of two components in tenths.  Their magnitudes are
\* 0, 5 or 10 tenths, so a cosine is a whole number of hundredths.
Embeddings == {<<10, 0>>, <<8, 6>>, <<3, 4>>, <<0, 0>>}

Dot(a, b) == a[1] * b[1] + a[2] * b[2]

\* Math.sqrt on the squares the magnitudes of the model take.
Sqrt(n) == CHOOSE m \in 0..n : m * m = n

\* milvus.ts:299-304  in hundredths.
CosineSimilarity(a, b) ==
  LET dotProduct == Dot(a, b)
      magnitudeA == Sqrt(Dot(a, a))
      magnitudeB == Sqrt(Dot(b, b))
  IN IF magnitudeA = 0 \/ magnitudeB = 0 THEN 0
     ELSE (100 * dotProduct) \div (magnitudeA * magnitudeB)

\* The L2 metric of the index (milvus.ts:125, 190): the squared distance, in
\* hundredths.
L2Score(a, b) == Dot(<<a[1] - b[1], a[2] - b[2]>>, <<a[1] - b[1], a[2] - b[2]>>)

\* JSON.stringify and JSON.parse on the source lists of the model.
StringifySources(sources) == IF sources = <<>> THEN "[]" ELSE "[\"Context\"]"

ParseSources(text) ==
  CASE text = "[]" -> <<>>
    [] text = "[\"Context\"]" -> <<"Context">>

\* A sort that leaves the array as it is.
SortNone(s, key) == s

\* The sequence s in descending order of key, equal keys in the order of s
\* (Array.prototype.sort is stable).
SortDesc(s, key) ==
  LET n == Len(s)
      rank(i) == Cardinality({j \in 1..n : key[j] > key[i] \/ (key[j] = key[i] /\ j < i)}) + 1
  IN [p \in 1..n |-> s[CHOOSE i \in 1..n : rank(i) = p]]

SelectSeqIdx(s, keep) ==
  LET idx == {i \in 1..Len(s) : keep[i]}
      nth(p) == CHOOSE i \in idx : Cardinality({j \in idx : j < i}) = p - 1
  IN [p \in 1..Cardinality(idx) |-> s[nth(p)]]

\* The record insertVector is given.
VectorResponse(id, embedding, sources) ==
  [id |-> id, query |-> "q", response |-> "a", embedding |-> embedding,
   sources |-> sources, timestamp |-> id]

\* milvus.ts:152-159  the row written to the collection.
MilvusRow(v) ==
  [id |-> v.id, query |-> v.query, response |-> v.response, embedding |-> v.embedding,
   sources |-> StringifySources(v.sources), timestamp |-> v.timestamp]

\* client.search (milvus.ts:187-197): the topk rows nearest to the query,
\* with their distance as score.
MilvusSearchResults(rows, queryEmbedding, limit) ==
  LET scored == [i \in 1..Len(rows) |->
                   [id |-> rows[i].id, query |-> rows[i].query,
                    response |-> rows[i].response, sources |-> rows[i].sources,
                    timestamp |-> rows[i].timestamp,
                    score |-> L2Score(queryEmbedding, rows[i].embedding)]]
      sorted == SortDesc(scored, [i \in 1..Len(rows) |-> 0 - scored[i].score])
  IN SubSeq(sorted, 1, Min(limit, Len(sorted)))

\* milvus.ts:199-206  the results mapped and filtered by the threshold.
MapMilvusResults(results, threshold) ==
  LET mapped == [i \in 1..Len(results) |->
                   [id |-> results[i].id, query |-> results[i].query,
                    response |-> results[i].response,
                    sources |-> ParseSources(IF results[i].sources = "" THEN "[]"
                                             ELSE results[i].sources),
                    similarity |-> Max(0, 100 - results[i].score),
                    timestamp |-> results[i].timestamp]]
  IN SelectSeqIdx(mapped, [i \in 1..Len(mapped) |-> mapped[i].similarity >= threshold])

\* milvus.ts:214-221  the in-memory scan.
InMemoryScan(vectors, queryEmbedding, threshold, limit) ==
  LET mapped == [i \in 1..Len(vectors) |->
                   [id |-> vectors[i].id, query |-> vectors[i].query,
                    response |-> vectors[i].response,
                    embedding |-> vectors[i].embedding,
                    sources |-> vectors[i].sources,
                    timestamp |-> vectors[i].timestamp,
                    similarity |-> CosineSimilarity(queryEmbedding, vectors[i].embedding)]]
      kept == SelectSeqIdx(mapped, [i \in 1..Len(mapped) |-> mapped[i].similarity >= threshold])
      sorted == SortDesc(kept, [i \in 1..Len(kept) |-> kept[i].similarity])
  IN SubSeq(sorted, 1, Min(limit, Len(sorted)))

\* A Milvus search that also falls back when it finds nothing.
UseInMemoryWhenEmpty(connected, threw, results) ==
  ~connected \/ threw \/ results = <<>>

\* milvus.ts:185, 207-211  searchSimilar goes on to the in-memory scan when
\* the service is not connected or the Milvus search threw.
UseInMemory(connected, threw, results) == ~connected \/ threw

IdleSearch ==
  [pc |-> "idle", queryEmbedding |-> <<0, 0>>, threshold |-> 0, limit |-> 0,
   connected |-> FALSE, threw |-> FALSE, results |-> <<>>, path |-> "", out |-> <<>>]

IdleInsert == [pc |-> "idle", vector |-> VectorResponse(0, <<0, 0>>, <<>>)]

\* crypto.randomUUID: an id no stored vector has.
FreshVectorId ==
  CHOOSE id \in 1..(MaxMilvusCalls + 2) :
    /\ \A i \in 1..Len(collection) : collection[i].id # id
    /\ \A i \in 1..Len(inMemoryVectors) : inMemoryVectors[i].id # id
    /\ \A i \in 1..Len(vectorResponses) : vectorResponses[i].id # id
    /\ milvusCalls.insert.vector.id # id

\* milvus.ts:37  the database runs the select the constructor's
\* loadVectorsFromDatabase sent: the rows it will answer with.
LoadVectorsRun ==
  /\ milvusCalls.load = "await"
  /\ milvusCalls' = [milvusCalls EXCEPT !.load = "reply", !.loaded = vectorResponses]
  /\ UNCHANGED <<client, isConnected, inMemoryVectors, collection, vectorResponses,
                 milvusLeft, routeVars, evalVars, unitVars>>

\* milvus.ts:35-50  loadVectorsFromDatabase: the rows arrive and replace
\* inMemoryVectors, or the select throws and the throw is logged.
LoadVectorsReturn ==
  /\ milvusCalls.load = "reply"
  /\ \E ok \in BOOLEAN :
       inMemoryVectors' = IF ok THEN milvusCalls.loaded ELSE inMemoryVectors
  /\ milvusCalls' = [milvusCalls EXCEPT !.load = "done", !.loaded = <<>>]
  /\ UNCHANGED <<client, isConnected, collection, vectorResponses, milvusLeft,
                 routeVars, evalVars, unitVars>>

\* milvus.ts:52-60  connect: without a client the service stays unconnected.
ConnectStart ==
  /\ milvusCalls.connect = "idle"
  /\ milvusCalls' = [milvusCalls EXCEPT !.connect = IF client THEN "await" ELSE "done"]
  /\ isConnected' = IF client THEN isConnected ELSE FALSE
  /\ UNCHANGED <<client, inMemoryVectors, collection, vectorResponses, milvusLeft,
                 routeVars, evalVars, unitVars>>

\* milvus.ts:61-72  hasCollection and ensureCollection return or throw.
ConnectReturn ==
  /\ milvusCalls.connect = "await"
  /\ \E ok \in BOOLEAN : isConnected' = ok
  /\ milvusCalls' = [milvusCalls EXCEPT !.connect = "done"]
  /\ UNCHANGED <<client, inMemoryVectors, collection, vectorResponses, milvusLeft,
                 routeVars, evalVars, unitVars>>

\* milvus.ts:139-148, 170-172  insertVector calls client.insert when
\* connected, storeVectorToDatabase otherwise.
InsertVectorStart ==
  /\ milvusLeft > 0
  /\ milvusCalls.insert.pc \in {"idle", "done", "threw"}
  /\ \E embedding \in Embeddings \ {<<0, 0>>}, sources \in {<<>>, <<"Context">>} :
       milvusCalls' = [milvusCalls EXCEPT !.insert =
         [pc |-> IF isConnected /\ client THEN "insert" ELSE "store",
          vector |-> VectorResponse(FreshVectorId, embedding, sources)]]
  /\ milvusLeft' = milvusLeft - 1
  /\ UNCHANGED <<client, isConnected, inMemoryVectors, collection, vectorResponses,
                 routeVars, evalVars, unitVars>>

\* milvus.ts:148-162, 166-169  client.insert returns with the row in the
\* collection and flush is called next; or it throws and the vector is
\* pushed to inMemoryVectors.
InsertVectorMilvusReturn ==
  /\ milvusCalls.insert.pc = "insert"
  /\ \E ok \in BOOLEAN :
       /\ collection' = IF ok THEN Append(collection, MilvusRow(milvusCalls.insert.vector))
                        ELSE collection
       /\ inMemoryVectors' = IF ok THEN inMemoryVectors
                             ELSE Append(inMemoryVectors, milvusCalls.insert.vector)
       /\ milvusCalls' = [milvusCalls EXCEPT !.insert.pc = IF ok THEN "flush" ELSE "done"]
  /\ UNCHANGED <<client, isConnected, vectorResponses, milvusLeft, routeVars, evalVars, unitVars>>

\* milvus.ts:163-169  client.flush returns; or it throws and the vector,
\* already in the collection, is pushed to inMemoryVectors.
InsertVectorFlushReturn ==
  /\ milvusCalls.insert.pc = "flush"
  /\ \E ok \in BOOLEAN :
       inMemoryVectors' = IF ok THEN inMemoryVectors
                          ELSE Append(inMemoryVectors, milvusCalls.insert.vector)
  /\ milvusCalls' = [milvusCalls EXCEPT !.insert.pc = "done"]
  /\ UNCHANGED <<client, isConnected, collection, vectorResponses, milvusLeft,
                 routeVars, evalVars, unitVars>>

\* milvus.ts:281-288  the database executes the INSERT storeVectorToDatabase
\* sent; its answer is still on its way.
InsertVectorStoreRun ==
  /\ milvusCalls.insert.pc = "store"
  /\ vectorResponses' = Append(vectorResponses, milvusCalls.insert.vector)
  /\ milvusCalls' = [milvusCalls EXCEPT !.insert.pc = "stored"]
  /\ UNCHANGED <<client, isConnected, inMemoryVectors, collection, milvusLeft,
                 routeVars, evalVars, unitVars>>

\* milvus.ts:170-174, 272-293  the answer of the database insert arrives and
\* the vector is pushed to inMemoryVectors; or the insert throws (before the
\* statement ran, or after it with the answer lost) and insertVector rejects.
InsertVectorStoreReturn ==
  /\ milvusCalls.insert.pc \in {"store", "stored"}
  /\ \E ok \in BOOLEAN :
       /\ ok => milvusCalls.insert.pc = "stored"
       /\ inMemoryVectors' = IF ok THEN Append(inMemoryVectors, milvusCalls.insert.vector)
                             ELSE inMemoryVectors
       /\ milvusCalls' = [milvusCalls EXCEPT !.insert.pc = IF ok THEN "done" ELSE "threw"]
  /\ UNCHANGED <<client, isConnected, collection, vectorResponses, milvusLeft,
                 routeVars, evalVars, unitVars>>

\* milvus.ts:178-197, 213-222  searchSimilar calls client.search when
\* connected, and scans inMemoryVectors otherwise.
SearchSimilarMilvusStart ==
  /\ milvusLeft > 0
  /\ milvusCalls.search.pc \in {"idle", "done"}
  /\ \E queryEmbedding \in Embeddings, threshold \in {70, 95}, limit \in {1, 10} :
       LET connected == isConnected /\ client
           call == [IdleSearch EXCEPT !.queryEmbedding = queryEmbedding,
                                      !.threshold = threshold, !.limit = limit,
                                      !.connected = connected]
       IN milvusCalls' = [milvusCalls EXCEPT !.search =
            IF UseInMemory(connected, FALSE, <<>>)
            THEN [call EXCEPT !.pc = "done", !.path = "memory",
                              !.out = InMemoryScan(inMemoryVectors, queryEmbedding,
                                                   threshold, limit)]
            ELSE [call EXCEPT !.pc = "search"]]
  /\ milvusLeft' = milvusLeft - 1
  /\ UNCHANGED <<client, isConnected, inMemoryVectors, collection, vectorResponses,
                 routeVars, evalVars, unitVars>>

\* milvus.ts:187-222  client.search returns or throws.
SearchSimilarMilvusReturn ==
  /\ milvusCalls.search.pc = "search"
  /\ \E ok \in BOOLEAN :
       LET call == milvusCalls.search
           results == IF ok THEN MilvusSearchResults(collection, call.queryEmbedding,
                                                     call.limit)
                      ELSE <<>>
       IN milvusCalls' = [milvusCalls EXCEPT !.search =
            IF UseInMemory(call.connected, ~ok, results)
            THEN [call EXCEPT !.pc = "done", !.threw = ~ok, !.results = results,
                              !.path = "memory",
                              !.out = InMemoryScan(inMemoryVectors, call.queryEmbedding,
                                                   call.threshold, call.limit)]
            ELSE [call EXCEPT !.pc = "done", !.results = results, !.path = "milvus",
                              !.out = MapMilvusResults(results, call.threshold)]]
  /\ UNCHANGED <<client, isConnected, inMemoryVectors, collection, vectorResponses,
                 milvusLeft, routeVars, evalVars, unitVars>>

\* milvus.ts:251-252, 263-265  clearCollection drops the Milvus collection
\* when connected, and deletes the rows of vector_responses otherwise.
ClearCollectionStart ==
  /\ milvusLeft > 0
  /\ milvusCalls.clear \in {"idle", "done"}
  /\ milvusCalls' = [milvusCalls EXCEPT
       !.clear = IF isConnected /\ client THEN "drop" ELSE "delete"]
  /\ milvusLeft' = milvusLeft - 1
  /\ UNCHANGED <<client, isConnected, inMemoryVectors, collection, vectorResponses,
                 routeVars, evalVars, unitVars>>

\* milvus.ts:253-265  dropCollection and ensureCollection return, or one
\* throws and the throw is logged; the delete is sent next.
ClearDropReturn ==
  /\ milvusCalls.clear = "drop"
  /\ \E ok \in BOOLEAN : collection' = IF ok THEN <<>> ELSE collection
  /\ milvusCalls' = [milvusCalls EXCEPT !.clear = "delete"]
  /\ UNCHANGED <<client, isConnected, inMemoryVectors, vectorResponses, milvusLeft,
                 routeVars, evalVars, unitVars>>

\* milvus.ts:265  the database executes the DELETE; its answer is still on
\* its way.
ClearDeleteRun ==
  /\ milvusCalls.clear = "delete"
  /\ vectorResponses' = <<>>
  /\ milvusCalls' = [milvusCalls EXCEPT !.clear = "deleted"]
  /\ UNCHANGED <<client, isConnected, inMemoryVectors, collection, milvusLeft,
                 routeVars, evalVars, unitVars>>

\* milvus.ts:263-270  the answer of the delete arrives, or the delete throws
\* and the throw is logged; inMemoryVectors is emptied either way.
ClearDeleteReturn ==
  /\ milvusCalls.clear \in {"delete", "deleted"}
  /\ inMemoryVectors' = <<>>
  /\ milvusCalls' = [milvusCalls EXCEPT !.clear = "done"]
  /\ UNCHANGED <<client, isConnected, collection, vectorResponses, milvusLeft,
                 routeVars, evalVars, unitVars>>

\* The service as the constructor leaves it, loadVectorsFromDatabase pending.
InitMilvus ==
  /\ client \in BOOLEAN
  /\ isConnected = FALSE
  /\ inMemoryVectors = <<>>
  /\ collection = <<>>
  /\ vectorResponses \in {<<>>, <<VectorResponse(1, <<8, 6>>, <<>>)>>}
  /\ milvusCalls = [load |-> "await", loaded |-> <<>>, connect |-> "idle",
                    insert |-> IdleInsert, search |-> IdleSearch, clear |-> "idle"]

\* The service unused: no client, no call to make.
NoMilvus ==
  /\ client = FALSE
  /\ isConnected = FALSE
  /\ inMemoryVectors = <<>>
  /\ collection = <<>>
  /\ vectorResponses = <<>>
  /\ milvusCalls = [load |-> "done", loaded |-> <<>>, connect |-> "done",
                    insert |-> IdleInsert, search |-> IdleSearch, clear |-> "idle"]
  /\ milvusLeft = 0

NextMilvus ==
  \/ LoadVectorsRun
  \/ LoadVectorsReturn
  \/ ConnectStart
  \/ ConnectReturn
  \/ InsertVectorStart
  \/ InsertVectorMilvusReturn
  \/ InsertVectorFlushReturn
  \/ InsertVectorStoreRun
  \/ InsertVectorStoreReturn
  \/ SearchSimilarMilvusStart
  \/ SearchSimilarMilvusReturn
  \/ ClearCollectionStart
  \/ ClearDropReturn
  \/ ClearDeleteRun
  \/ ClearDeleteReturn

\* ===================================================== memory evaluator
\* Texts are sequences of characters.
UpperCase == <<"A", "B", "C", "D", "E", "F", "G", "H", "I", "J", "K", "L", "M",
               "N", "O", "P", "Q", "R", "S", "T", "U", "V", "W", "X", "Y", "Z">>

LowerCase == <<"a", "b", "c", "d", "e", "f", "g", "h", "i", "j", "k", "l", "m",
               "n", "o", "p", "q", "r", "s", "t", "u", "v", "w", "x", "y", "z">>

\* String.prototype.toLowerCase
ToLowerCase(text) ==
  [i \in 1..Len(text) |->
     IF \E k \in 1..26 : UpperCase[k] = text[i]
     THEN LowerCase[CHOOSE k \in 1..26 : UpperCase[k] = text[i]]
     ELSE text[i]]

\* The text contains the word.
Includes(text, word) ==
  \E i \in 0..(Len(text) - Len(word)) : SubSeq(text, i + 1, i + Len(word)) = word

\* A regular expression that is an alternation of words, tested on a text.
TestWords(words, text) == \E w \in words : Includes(text, w)

\* /^.{1,20}$/ : one to twenty characters, none a line terminator.
TestShort(text) ==
  Len(text) \in 1..20 /\ \A i \in 1..Len(text) : text[i] \notin {"\n", "\r"}

\* memory-evaluator.ts:79-85
AutoSaveWords ==
  {<<"h", "o", "w", " ", "t", "o">>, <<"t", "u", "t", "o", "r", "i", "a", "l">>,
   <<"s", "t", "e", "p", "s">>, <<"g", "u", "i", "d", "e">>,
   <<"i", "n", "s", "t", "r", "u", "c", "t", "i", "o", "n", "s">>,
   <<"s", "o", "l", "v", "e">>, <<"s", "o", "l", "u", "t", "i", "o", "n">>,
   <<"f", "i", "x">>, <<"r", "e", "s", "o", "l", "v", "e">>,
   <<"l", "e", "a", "r", "n">>, <<"u", "n", "d", "e", "r", "s", "t", "a", "n", "d">>,
   <<"e", "x", "p", "l", "a", "i", "n">>,
   <<"i", "m", "p", "o", "r", "t", "a", "n", "t">>,
   <<"c", "r", "u", "c", "i", "a", "l">>, <<"c", "r", "i", "t", "i", "c", "a", "l">>,
   <<"k", "e", "y">>, <<"r", "e", "m", "e", "m", "b", "e", "r">>,
   <<"n", "o", "t", "e">>, <<"t", "i", "p">>, <<"a", "d", "v", "i", "c", "e">>}

\* memory-evaluator.ts:89-91
SkipWords ==
  {<<"h", "e", "l", "l", "o">>, <<"h", "i">>, <<"h", "e", "y">>,
   <<"t", "h", "a", "n", "k", "s">>, <<"t", "h", "a", "n", "k", " ", "y", "o", "u">>,
   <<"b", "y", "e">>, <<"g", "o", "o", "d", "b", "y", "e">>, <<"y", "e", "s">>,
   <<"n", "o">>, <<"o", "k">>, <<"o", "k", "a", "y">>, <<"s", "u", "r", "e">>,
   <<"f", "i", "n", "e">>}

\* memory-evaluator.ts:96-99
PromptWords ==
  {<<"p", "e", "r", "s", "o", "n", "a", "l">>, <<"p", "r", "i", "v", "a", "t", "e">>,
   <<"s", "e", "n", "s", "i", "t", "i", "v", "e">>,
   <<"c", "o", "n", "f", "i", "d", "e", "n", "t", "i", "a", "l">>,
   <<"p", "a", "s", "s", "w", "o", "r", "d">>, <<"s", "e", "c", "r", "e", "t">>,
   <<"k", "e", "y">>, <<"t", "o", "k", "e", "n">>, <<"m", "y">>,
   <<"m", "i", "n", "e">>, <<"y", "o", "u", "r", "s", "e", "l", "f">>,
   <<"y", "o", "u", "r">>}

Decision(action, reason, confidence) ==
  [action |-> action, reason |-> reason, confidence |-> confidence]

\* memory-evaluator.ts:70-142  confidence in tenths.
FallbackEvaluation(userQuery, aiResponse, context) ==
  LET text == ToLowerCase(userQuery) \o <<" ">> \o ToLowerCase(aiResponse) IN
  IF TestWords(AutoSaveWords, text)
    THEN Decision("auto_save", "Contains valuable learning or problem-solving content", 8)
  ELSE IF TestWords(SkipWords, text) \/ TestShort(text)
    THEN Decision("skip", "Basic conversation or very short response", 9)
  ELSE IF TestWords(PromptWords, text)
    THEN Decision("prompt_user", "May contain personal or sensitive information", 7)
  ELSE IF Len(aiResponse) > 100 /\ Len(context) > 0
    THEN Decision("prompt_user",
                  "Substantial response with external context - user should decide", 6)
  ELSE Decision("skip", "No clear value indicators found", 5)

\* A JSON object of the three fields; a field the text lacks is Undefined.
JsonObject(action, reason, confidence) ==
  [t |-> "object", action |-> action, reason |-> reason, confidence |-> confidence]

\* The replies of the model, as generateChatResponse would return them in
\* content.
Replies ==
  {"{\"action\":\"auto_save\",\"reason\":\"new fact\",\"confidence\":0.9}",
   "{\"action\":\"save\",\"reason\":\"new fact\",\"confidence\":0.9}",
   "{\"action\":\"skip\"}",
   "{\"action\":\"prompt_user\",\"reason\":\"\",\"confidence\":7}",
   "{\"action\":\"skip\",\"reason\":\"greeting\",\"confidence\":-2}",
   "{\"reason\":\"new fact\"}",
   "null",
   "Here is the JSON you asked for",
   ""}

\* JSON.parse on the replies: the value, or thrown.
JsonParse(text) ==
  CASE text = "{\"action\":\"auto_save\",\"reason\":\"new fact\",\"confidence\":0.9}"
         -> [ok |-> TRUE, value |-> JsonObject(Str("auto_save"), Str("new fact"), Num(9))]
    [] text = "{\"action\":\"save\",\"reason\":\"new fact\",\"confidence\":0.9}"
         -> [ok |-> TRUE, value |-> JsonObject(Str("save"), Str("new fact"), Num(9))]
    [] text = "{\"action\":\"skip\"}"
         -> [ok |-> TRUE, value |-> JsonObject(Str("skip"), Undefined, Undefined)]
    [] text = "{\"action\":\"prompt_user\",\"reason\":\"\",\"confidence\":7}"
         -> [ok |-> TRUE, value |-> JsonObject(Str("prompt_user"), Str(""), Num(70))]
    [] text = "{\"action\":\"skip\",\"reason\":\"greeting\",\"confidence\":-2}"
         -> [ok |-> TRUE, value |-> JsonObject(Str("skip"), Str("greeting"), Num(0 - 20))]
    [] text = "{\"reason\":\"new fact\"}"
         -> [ok |-> TRUE, value |-> JsonObject(Undefined, Str("new fact"), Undefined)]
    [] text = "null" -> [ok |-> TRUE, value |-> Null]
    [] OTHER -> [ok |-> FALSE, value |-> Undefined]

MemoryActions == {"auto_save", "prompt_user", "skip"}

\* What evaluateMemoryValue gives its caller: a decision, or a rejection.
Resolved(decision) == [threw |-> FALSE, decision |-> decision]

Rejected == [threw |-> TRUE, decision |-> Undefined]

\* An outer catch that passes the error on to the caller.
EvaluationFailedRethrow(userQuery, aiResponse, context) == Rejected

\* memory-evaluator.ts:64-67  the outer catch.
EvaluationFailed(userQuery, aiResponse, context) ==
  Resolved(FallbackEvaluation(userQuery, aiResponse, context))

\* memory-evaluator.ts:58-63  the inner catch.
ParseFailed(userQuery, aiResponse, context) ==
  Resolved(FallbackEvaluation(userQuery, aiResponse, context))

\* memory-evaluator.ts:54-56  reason || "...", and the confidence || 0.5
\* clamped to 0..1, in tenths.
ReasonOf(value) == IF Truthy(value.reason) THEN value.reason.v ELSE "No reason provided"

ConfidenceOf(value) ==
  LET c == IF value.confidence.t = "number" /\ value.confidence.n # 0
           THEN value.confidence.n ELSE 5
  IN Max(0, Min(10, c))

\* memory-evaluator.ts:14, 43-67  evaluateMemoryValue once generateChatResponse
\* has settled with the evaluation: [ok |-> FALSE] when it threw.
EvaluateMemoryValue(userQuery, aiResponse, context, evaluation) ==
  IF ~evaluation.ok THEN EvaluationFailed(userQuery, aiResponse, context)
  ELSE LET parsed == JsonParse(evaluation.content) IN
       IF ~parsed.ok THEN ParseFailed(userQuery, aiResponse, context)
       ELSE IF parsed.value.t = "null" THEN ParseFailed(userQuery, aiResponse, context)
       ELSE IF ~(parsed.value.action.t = "string"
                 /\ parsed.value.action.v \in MemoryActions)
         THEN ParseFailed(userQuery, aiResponse, context)
       ELSE Resolved(Decision(parsed.value.action.v, ReasonOf(parsed.value),
                              ConfidenceOf(parsed.value)))

\* openai.ts:18-76  what generateChatResponse(evaluationPrompt) can settle
\* with: it throws when the validation of its options does, and otherwise
\* when the API call does.
GenerateChatResponseOutcomes(options, s) ==
  IF GenerateValidation(options, s) # "" THEN {[ok |-> FALSE, content |-> ""]}
  ELSE {[ok |-> FALSE, content |-> ""]} \cup {[ok |-> TRUE, content |-> t] : t \in Replies}

\* Every way a generation call can settle.
AllEvaluations ==
  {[ok |-> FALSE, content |-> ""]} \cup {[ok |-> TRUE, content |-> t] : t \in Replies}

Repeat(c, n) == [i \in 1..n |-> c]

\* The texts the evaluator is given.
QueryInputs ==
  {<<"H", "o", "w", " ", "t", "o", " ", "f", "i", "x", " ", "i", "t">>,
   <<"h", "i">>,
   <<"w", "h", "a", "t", " ", "i", "s", " ", "z", "z", "z">>,
   <<"M", "y", " ", "z", "z", "z", "z", "z", " ", "z", "z", "z", "z", "z", " ", "z", "z", "z", "z", "z", " ", "z", "z">>,
   <<"z", "z", "\n", "z", "z">>}

ResponseInputs ==
  {<<"U", "s", "e", " ", "a", " ", "g", "u", "i", "d", "e">>,
   <<"z", "z", "z">>,
   <<"z", "z", "z", "z", "z", " ", "z", "z", "z", "z", "z", " ", "z", "z", "z", "z", "z", " ", "z", "z", "z", "z", "z", " ", "z", "z">>,
   Repeat("z", 101), Repeat("z", 100)}

ContextInputs == {<<>>, <<"c", "t", "x">>}

IdleEval == [pc |-> "idle"]

\* memory-evaluator.ts:9-43  the prompt is built and generateChatResponse is
\* called with it alone.
EvaluateStart ==
  /\ evalLeft > 0
  /\ evalCall.pc \in {"idle", "done"}
  /\ \E userQuery \in QueryInputs, aiResponse \in ResponseInputs, context \in ContextInputs :
       evalCall' = [pc |-> "generate", userQuery |-> userQuery,
                    aiResponse |-> aiResponse, context |-> context]
  /\ evalLeft' = evalLeft - 1
  /\ UNCHANGED <<routeVars, milvusVars, unitVars>>

\* memory-evaluator.ts:43-67  the generation settles and the decision is
\* returned.
EvaluateReturn ==
  /\ evalCall.pc = "generate"
  /\ \E evaluation \in GenerateChatResponseOutcomes(NoOptions, EmptySettings) :
       evalCall' = [pc |-> "done", userQuery |-> evalCall.userQuery,
                    aiResponse |-> evalCall.aiResponse, context |-> evalCall.context,
                    evaluation |-> evaluation,
                    result |-> EvaluateMemoryValue(evalCall.userQuery, evalCall.aiResponse,
                                                   evalCall.context, evaluation)]
  /\ UNCHANGED <<evalLeft, routeVars, milvusVars, unitVars>>

NextEval == EvaluateStart \/ EvaluateReturn

\* ===================================================== PineconeService
\* part_008:32
maxRetries == 3

\* part_008:48  the test of the while loop.
RetriesLeft(connectionRetries) == connectionRetries < maxRetries

\* A catch that gives up one failure later.
GiveUpLate(connectionRetries) == connectionRetries > maxRetries

\* part_008:63  the test of the catch: no retry is left.
GiveUp(connectionRetries) == connectionRetries >= maxRetries

\* part_008:68  Math.pow(2, connectionRetries) * 1000 milliseconds.
Backoff(connectionRetries) == (2 ^ connectionRetries) * 1000

ConnectSlots == {1, 2}

\* A connect call: where it stands, the attempts it made, the waits it took,
\* the counter it found, and whether another call ran during it.
IdleConnect ==
  [pc |-> "idle", attempts |-> 0, waits |-> <<>>, found |-> 0, overlapped |-> FALSE]

ConnectInProgress(c) == c.pc \in {"attempt", "backoff"}

\* part_008:43-49  connect is called: it throws without a client, returns
\* when the counter leaves no retry, and otherwise calls listIndexes.
PineconeConnectStart(k) ==
  /\ pinecone.left > 0
  /\ ~ConnectInProgress(pinecone.calls[k])
  /\ \A j \in ConnectSlots : j < k => ConnectInProgress(pinecone.calls[j])
  /\ LET others == \E j \in ConnectSlots : j # k /\ ConnectInProgress(pinecone.calls[j])
         call == [IdleConnect EXCEPT !.found = pinecone.connectionRetries,
                                     !.overlapped = others]
         begun == IF ~pinecone.client THEN [call EXCEPT !.pc = "rejected"]
                  ELSE IF RetriesLeft(pinecone.connectionRetries)
                    THEN [call EXCEPT !.pc = "attempt", !.attempts = 1]
                  ELSE [call EXCEPT !.pc = "resolved"]
     IN pinecone' = [pinecone EXCEPT
          !.left = @ - 1,
          !.calls = [j \in ConnectSlots |->
                       IF j = k THEN begun
                       ELSE IF ConnectInProgress(@[j]) THEN [@[j] EXCEPT !.overlapped = TRUE]
                       ELSE @[j]]]
  /\ UNCHANGED <<routeVars, milvusVars, evalVars, exceptPinecone>>

\* part_008:49-69  listIndexes, ensureIndex return or one of them throws.
PineconeAttemptReturn(k) ==
  /\ pinecone.calls[k].pc = "attempt"
  /\ \E ok \in BOOLEAN :
       LET retries == pinecone.connectionRetries + 1 IN
       pinecone' =
         IF ok
         THEN [pinecone EXCEPT !.isConnected = TRUE, !.connectionRetries = 0,
                               !.calls[k].pc = "resolved"]
         ELSE IF GiveUp(retries)
         THEN [pinecone EXCEPT !.isConnected = FALSE, !.connectionRetries = retries,
                               !.calls[k].pc = "rejected"]
         ELSE [pinecone EXCEPT !.connectionRetries = retries,
                               !.calls[k].pc = "backoff",
                               !.calls[k].waits = Append(@, Backoff(retries))]
  /\ UNCHANGED <<routeVars, milvusVars, evalVars, exceptPinecone>>

\* part_008:48, 68  the wait ends and the loop test runs again.
PineconeBackoffElapsed(k) ==
  /\ pinecone.calls[k].pc = "backoff"
  /\ pinecone' =
       IF RetriesLeft(pinecone.connectionRetries)
       THEN [pinecone EXCEPT !.calls[k].pc = "attempt", !.calls[k].attempts = @ + 1]
       ELSE [pinecone EXCEPT !.calls[k].pc = "resolved"]
  /\ UNCHANGED <<routeVars, milvusVars, evalVars, exceptPinecone>>

\* part_008:28-41  the service as its constructor leaves it.
InitPinecone ==
  pinecone \in {[client |-> c, isConnected |-> FALSE, connectionRetries |-> 0,
                 calls |-> [k \in ConnectSlots |-> IdleConnect], left |-> MaxConnects]
                  : c \in BOOLEAN}

NoPinecone ==
  pinecone = [client |-> FALSE, isConnected |-> FALSE, connectionRetries |-> 0,
              calls |-> [k \in ConnectSlots |-> IdleConnect], left |-> 0]

NextPinecone ==
  \/ \E k \in ConnectSlots : PineconeConnectStart(k)
  \/ \E k \in ConnectSlots : PineconeAttemptReturn(k)
  \/ \E k \in ConnectSlots : PineconeBackoffElapsed(k)

\* ------------------------- POST /api/messages: where the options come from
\* The fields model, temperature and maxTokens a client may put in the body
\* of POST /api/messages (part_006:73-84 read them; routes.ts:37-40 does not).
BodyModels == {Undefined, Str("gpt-4")}

BodyTemperatures == {Undefined, Num(0)}

BodyMaxTokens == {Undefined, Num(1)}

PostBodies ==
  [content : {Str(q) : q \in QueryTexts}, saveToVector : {FALSE},
   model : BodyModels, temperature : BodyTemperatures, maxTokens : BodyMaxTokens]

\* The settings tables the requests are tried against.
SettingsStores ==
  {EmptySettings} \cup
  [model : {"gpt-4o-mini", ""}, temperature : {"1.0", "0", ""},
   maxTokens : {"2048", "0"}, systemPrompt : {"SP", ""}]

\* routes.ts:72-98  what the request does once the settings are read: a 400,
\* a 500 from the validation of openai.ts:30-33, or the generation call.
SettingsStep(body, prev, s) ==
  LET o == RequestOptions(body, s) IN
  IF SettingsError(s) # ""
    THEN [status |-> 400, message |-> SettingsError(s)]
  ELSE IF GenerateValidation(o, s) # ""
    THEN [status |-> 500, message |-> "Failed to process message"]
  ELSE [status |-> 0, options |-> o,
        call |-> GenerationCall(body.content.v, prev, o, s)]

PairSlots == {1, 2}

NotArrived == [status |-> -1]

\* routes.ts:36-58  a request arrives with its body.
PairStart(i) ==
  /\ postPair.pc[i] = "idle"
  /\ \E body \in PostBodies :
       postPair' = [postPair EXCEPT !.pc[i] = "settings", !.body[i] = body]
  /\ UNCHANGED <<routeVars, milvusVars, evalVars, exceptPostPair>>

\* routes.ts:72-98, 139-142  getAllSettings returns to it, or throws
\* (database.ts:82-85) and the catch answers 500 without a generation call.
PairSettingsReturn(i) ==
  /\ postPair.pc[i] = "settings"
  /\ \E ok \in BOOLEAN :
       postPair' = [postPair EXCEPT
          !.pc[i] = "done",
          !.read[i] = ok,
          !.step[i] = IF ok
                        THEN SettingsStep(postPair.body[i], postPair.prev, postPair.settings)
                        ELSE [status |-> 500, message |-> "Failed to process message"]]
  /\ UNCHANGED <<routeVars, milvusVars, evalVars, exceptPostPair>>

\* routes.ts:60  searchSimilar(queryEmbedding, 0.7, 3): at most 3 results.
SearchLimit == 3

\* The previous conversations a search may hand to the generation, most
\* similar first.
PreviousLists ==
  LET found == <<[query |-> "q1", response |-> "a1"], [query |-> "q2", response |-> "a2"],
                 [query |-> "q1", response |-> "a2"]>>
  IN {SubSeq(found, 1, n) : n \in 0..SearchLimit}

InitPostPair ==
  \E s \in SettingsStores, prev \in PreviousLists :
    postPair = [settings |-> s, prev |-> prev,
                pc |-> [i \in PairSlots |-> "idle"],
                body |-> [i \in PairSlots |-> Undefined],
                read |-> [i \in PairSlots |-> FALSE],
                step |-> [i \in PairSlots |-> NotArrived]]

NoPostPair ==
  postPair = [settings |-> EmptySettings, prev |-> <<>>,
              pc |-> [i \in PairSlots |-> "done"],
              body |-> [i \in PairSlots |-> Undefined],
              read |-> [i \in PairSlots |-> FALSE],
              step |-> [i \in PairSlots |-> NotArrived]]

NextPostPair == \E i \in PairSlots : PairStart(i) \/ PairSettingsReturn(i)

\* ------------------------------------------- database.ts: table settings
\* database.ts:15-22, part_005:5-11  a row: serial id, unique key, value.
SettingRow(id, key, value) == [id |-> id, key |-> key, value |-> value]

SettingValues == {"v1", "v2"}

\* Positions of the rows holding the key.
RowsOf(rows, key) == {i \in DOMAIN rows : rows[i].key = key}

\* INSERT ... ON CONFLICT (key) DO NOTHING, as initializeDatabase writes its
\* defaults (database.ts:36-41): an existing row keeps its value.
InsertIfAbsent(rows, id, key, value) ==
  IF RowsOf(rows, key) = {} THEN Append(rows, SettingRow(id, key, value)) ELSE rows

\* database.ts:61-67  INSERT ... ON CONFLICT (key) DO UPDATE SET value = $2.
Upsert(rows, id, key, value) ==
  IF RowsOf(rows, key) = {}
    THEN Append(rows, SettingRow(id, key, value))
    ELSE [i \in DOMAIN rows |->
            IF rows[i].key = key THEN [rows[i] EXCEPT !.value = value] ELSE rows[i]]

RECURSIVE AssignRows(_, _)
\* database.ts:77-81  for (const row of result.rows) settings[row.key] = row.value
AssignRows(rows, acc) ==
  IF rows = <<>> THEN acc
  ELSE AssignRows(Tail(rows), (Head(rows).key :> Head(rows).value) @@ acc)

\* database.ts:74-86  getAllSettings on the rows the SELECT returns.
GetAllSettings(rows) == AssignRows(rows, EmptySettings)

\* database.ts:26-41  the table initializeDatabase leaves on an empty database.
DefaultRows ==
  <<SettingRow(1, "systemPrompt", DefaultSettings["systemPrompt"]),
    SettingRow(2, "userPromptTemplate", DefaultSettings["userPromptTemplate"]),
    SettingRow(3, "userPromptNoContext", DefaultSettings["userPromptNoContext"]),
    SettingRow(4, "model", DefaultSettings["model"]),
    SettingRow(5, "temperature", DefaultSettings["temperature"]),
    SettingRow(6, "maxTokens", DefaultSettings["maxTokens"])>>

SetSlots == {1, 2}

IdleSet == [pc |-> "idle", key |-> "", value |-> "", serial |-> 0]

\* A setSetting call whose answer has not arrived.
SetInProgress(c) == c.pc \in {"query", "ran"}

\* database.ts:59-61  setSetting(key, value) sends its statement.
SetSettingStart(k) ==
  /\ settingsTable.left > 0
  /\ ~SetInProgress(settingsTable.calls[k])
  /\ \E key \in SettingKeys, value \in SettingValues :
       settingsTable' = [settingsTable EXCEPT
         !.calls[k] = [pc |-> "query", key |-> key, value |-> value, serial |-> 0],
         !.left = @ - 1]
  /\ UNCHANGED <<routeVars, milvusVars, evalVars, exceptSettingsTable>>

\* database.ts:61-67  the database executes the statement of a pending
\* call; the pool runs the statements of concurrent calls on separate
\* connections, in any order.  The serial is advanced by every statement
\* that ran.
SetSettingRun(k) ==
  /\ settingsTable.calls[k].pc = "query"
  /\ LET c == settingsTable.calls[k] IN
     settingsTable' = [settingsTable EXCEPT
       !.rows = Upsert(@, settingsTable.nextId, c.key, c.value),
       !.nextId = @ + 1,
       !.expect = SetSetting(@, c.key, c.value),
       !.written = @ \cup {c.key},
       !.calls[k].pc = "ran",
       !.calls[k].serial = settingsTable.nextId]
  /\ UNCHANGED <<routeVars, milvusVars, evalVars, exceptSettingsTable>>

\* database.ts:61-71  the answer of pool.query reaches the call: it
\* resolves, or the query fails (before the statement ran, or after it ran
\* with the answer lost) and the call rethrows.
SetSettingReturn(k) ==
  /\ SetInProgress(settingsTable.calls[k])
  /\ \E ok \in BOOLEAN :
       /\ ok => settingsTable.calls[k].pc = "ran"
       /\ settingsTable' = [settingsTable EXCEPT
            !.calls[k].pc = IF ok THEN "resolved" ELSE "rejected"]
  /\ UNCHANGED <<routeVars, milvusVars, evalVars, exceptSettingsTable>>

\* The table before and after initializeDatabase; initial is what
\* getAllSettings returns on it, expect follows the completed calls.
InitSettingsTable ==
  \E rows \in {<<>>, DefaultRows} :
    settingsTable = [rows |-> rows, nextId |-> Len(rows) + 1,
                     initial |-> GetAllSettings(rows),
                     expect |-> GetAllSettings(rows), written |-> {},
                     calls |-> [k \in SetSlots |-> IdleSet], left |-> MaxSets]

NoSettingsTable ==
  settingsTable = [rows |-> <<>>, nextId |-> 1, initial |-> EmptySettings,
                   expect |-> EmptySettings, written |-> {},
                   calls |-> [k \in SetSlots |-> IdleSet], left |-> 0]

NextSettingsTable ==
  \E k \in SetSlots : SetSettingStart(k) \/ SetSettingRun(k) \/ SetSettingReturn(k)

\* ------------------------------- storage.ts: MemStorage and DatabaseStorage
\* storage.ts:159, 235  limit: number = 50
DefaultLimit == 50

Limits == {1, 2, DefaultLimit}

\* storage.ts:166-178, 244-253  the message a createChatMessage stores; the id
\* stands for the position of the call, the same in both storages.
StoredMessage(id, content, role, timestamp) ==
  [id |-> id, content |-> content, role |-> role, timestamp |-> timestamp,
   savedToVector |-> FALSE]

\* Array.prototype.sort with (a, b) => a.timestamp - b.timestamp: ascending
\* and stable.
SortByTimestamp(s) ==
  LET n == Len(s)
      rank(i) == Cardinality({j \in 1..n : \/ s[j].timestamp < s[i].timestamp
                                         \/ (s[j].timestamp = s[i].timestamp /\ j < i)}) + 1
  IN [p \in 1..n |-> s[CHOOSE i \in 1..n : rank(i) = p]]

\* Array.prototype.slice(-limit) for limit > 0: the last limit elements.
SliceLast(s, limit) == SubSeq(s, Max(1, Len(s) - limit + 1), Len(s))

\* SQL LIMIT: the first limit rows.
SliceFirst(s, limit) == SubSeq(s, 1, Min(limit, Len(s)))

\* storage.ts:159-164  MemStorage.getChatMessages
MemGetChatMessages(messages, limit) == SliceLast(SortByTimestamp(messages), limit)

\* storage.ts:235-242  DatabaseStorage.getChatMessages: ORDER BY timestamp
\* LIMIT limit.
DbGetChatMessages(rows, limit) == SliceFirst(SortByTimestamp(rows), limit)

\* storage.ts:180-187, 255-262  updateChatMessage(id, {savedToVector}).
UpdateStored(messages, id, saved) ==
  [i \in DOMAIN messages |->
     IF messages[i].id = id THEN [messages[i] EXCEPT !.savedToVector = saved]
     ELSE messages[i]]

\* What a caller sees of a message: timestamps are each storage's own.
Shown(messages) ==
  [i \in DOMAIN messages |->
     [id |-> messages[i].id, content |-> messages[i].content,
      role |-> messages[i].role, savedToVector |-> messages[i].savedToVector]]

NoGet == [limit |-> 0, mem |-> <<>>, db |-> <<>>]

\* storage.ts:166-178, 244-253  createChatMessage on both.  MemStorage stamps
\* new Date(), which two calls within a millisecond share; the table stamps
\* defaultNow(), taken to differ from call to call.
StorageCreate ==
  /\ Len(storages.mem) < MaxStored
  /\ \E content \in QueryTexts, role \in {"user", "assistant"}, tick \in {0, 1} :
       LET id == Len(storages.mem) + 1 IN
       storages' = [storages EXCEPT
         !.mem = Append(@, StoredMessage(id, content, role, storages.clock + tick)),
         !.db = Append(@, StoredMessage(id, content, role, id)),
         !.clock = @ + tick]
  /\ UNCHANGED <<routeVars, milvusVars, evalVars, exceptStorages>>

\* storage.ts:180-187, 255-262  updateChatMessage on both.
StorageUpdate ==
  /\ \E id \in 1..Len(storages.mem), saved \in BOOLEAN :
       storages' = [storages EXCEPT
         !.mem = UpdateStored(@, id, saved),
         !.db = UpdateStored(@, id, saved)]
  /\ UNCHANGED <<routeVars, milvusVars, evalVars, exceptStorages>>

\* storage.ts:159-164, 235-242  getChatMessages(limit) on both.
StorageGet ==
  /\ \E limit \in Limits :
       storages' = [storages EXCEPT
         !.got = [limit |-> limit,
                  mem |-> Shown(MemGetChatMessages(storages.mem, limit)),
                  db |-> Shown(DbGetChatMessages(storages.db, limit))]]
  /\ UNCHANGED <<routeVars, milvusVars, evalVars, exceptStorages>>

InitStorages == storages = [mem |-> <<>>, db |-> <<>>, clock |-> 0, got |-> NoGet]

NoStorages == storages = [mem |-> <<>>, db |-> <<>>, clock |-> -1, got |-> NoGet]

NextStorages == StorageCreate \/ StorageUpdate \/ StorageGet

\* ------------------------------------- chat.tsx and ChatInput: the page
\* What the user may have typed in the textarea.
Typed == {"", "  ", " q2 "}

\* A message as the page lists it.
PageMessage(id, content, role) ==
  [id |-> id, content |-> content, role |-> role, savedToVector |-> FALSE]

\* A prop that is never set.
IsLoadingNever(page) == FALSE

\* chat.tsx:408-411  isLoading={sendMessageMutation.isPending}, as of the
\* render that precedes the event.
IsLoading(page) == page.pending

\* part_000:55  !message.trim() || isLoading
SubmitIgnored(message, isLoading) == Trim(message) = "" \/ isLoading

\* The server ids among the listed messages (temporary ids are negative).
ServerIds(list) == {list[i].id : i \in 1..Len(list)} \cap Nat

\* part_000:96-101  onChange of the textarea, disabled while isLoading.
PageType ==
  /\ ~IsLoading(chatPage)
  /\ \E text \in Typed \ {chatPage.message} :
       chatPage' = [chatPage EXCEPT !.message = text]
  /\ UNCHANGED <<routeVars, milvusVars, evalVars, exceptChatPage>>

\* part_000:54-63, chat.tsx:59-77, 158-163  handleSubmit: nothing when the
\* trimmed message is empty or isLoading; else handleSendMessage mutates:
\* the user message is put in the cache under a temporary id, the POST goes
\* out with the trimmed text, and the input is cleared.
PageSubmit ==
  /\ chatPage.submits < MaxSubmits
  /\ chatPage' =
       IF SubmitIgnored(chatPage.message, IsLoading(chatPage))
         THEN [chatPage EXCEPT !.submits = @ + 1]
         ELSE [chatPage EXCEPT
                 !.submits = @ + 1,
                 !.cache = Append(@, PageMessage(-(chatPage.submits + 1),
                                                 Trim(chatPage.message), "user")),
                 !.pending = TRUE,
                 !.posts = Append(@, [content |-> Trim(chatPage.message), pc |-> "sent"]),
                 !.message = ""]
  /\ UNCHANGED <<routeVars, milvusVars, evalVars, exceptChatPage>>

\* routes.ts:36-58  a POST of the page reaches its handler: the user message
\* is pushed.
PagePostArrive ==
  /\ \E i \in 1..Len(chatPage.posts) :
       /\ chatPage.posts[i].pc = "sent"
       /\ chatPage' = [chatPage EXCEPT
            !.posts[i].pc = "handled",
            !.server = Append(@, PageMessage(chatPage.nextId, chatPage.posts[i].content, "user")),
            !.nextId = @ + 1]
  /\ UNCHANGED <<routeVars, milvusVars, evalVars, exceptChatPage>>

\* routes.ts:94-142  the handler of a POST pushes the assistant message and
\* answers 200, or answers an error; the response is on its way to the page.
PagePostAnswer ==
  /\ \E i \in 1..Len(chatPage.posts), ok \in BOOLEAN :
       /\ chatPage.posts[i].pc = "handled"
       /\ chatPage' = [chatPage EXCEPT
            !.posts[i].pc = "answered",
            !.server = IF ok THEN Append(@, PageMessage(chatPage.nextId, "a1", "assistant"))
                       ELSE @,
            !.nextId = IF ok THEN @ + 1 ELSE @]
  /\ UNCHANGED <<routeVars, milvusVars, evalVars, exceptChatPage>>

\* chat.tsx:89-104  the response of a POST reaches the page: onSuccess and
\* onError both invalidate the query, and the mutation is no longer pending.
PagePostReturn ==
  /\ \E i \in 1..Len(chatPage.posts) :
       /\ chatPage.posts[i].pc = "answered"
       /\ chatPage' = [chatPage EXCEPT
            !.posts[i].pc = "done",
            !.pending = \E j \in 1..Len(chatPage.posts) :
                           j # i /\ chatPage.posts[j].pc # "done",
            !.refetch = TRUE]
  /\ UNCHANGED <<routeVars, milvusVars, evalVars, exceptChatPage>>

\* chat.tsx:44-46, routes.ts:25-31  the query is fetched: GET /api/messages
\* answers with the server's array, which becomes the list shown.
PageRefetch ==
  /\ chatPage.refetch
  /\ chatPage' = [chatPage EXCEPT !.cache = chatPage.server, !.refetch = FALSE]
  /\ UNCHANGED <<routeVars, milvusVars, evalVars, exceptChatPage>>

\* chat.tsx:165-167, 225  the Clear button: handleClearChat empties the
\* query cache.
PageClear ==
  /\ chatPage.cache # <<>>
  /\ chatPage' = [chatPage EXCEPT
       !.cache = <<>>,
       !.cleared = @ \cup ServerIds(chatPage.cache)]
  /\ UNCHANGED <<routeVars, milvusVars, evalVars, exceptChatPage>>

\* The message of the server's array with the id, <<>> when there is none.
Found(server, id) == SelectSeq(server, LAMBDA m : m.id = id)

\* chat.tsx:400  isUpdating={toggleVectorSaveMutation.isPending}: the
\* mutation started last has not settled.
IsUpdating(page) == \E i \in 1..Len(page.patches) : page.patches[i].latest

\* message-list.tsx:99  disabled={isUpdating && updatingMessageId === message.id}
Disabled(page, id) == IsUpdating(page) /\ page.updatingMessageId = id

\* chat.tsx:125-131, 169-171, message-list.tsx:98-99  the checkbox of a
\* listed assistant message is clicked while it is not disabled:
\* updatingMessageId is set and the PATCH goes out with the message's id and
\* the new state of the checkbox.
PageToggle ==
  /\ chatPage.clicks < MaxPatches
  /\ \E i \in 1..Len(chatPage.cache) :
       LET m == chatPage.cache[i] IN
       /\ m.role = "assistant"
       /\ ~Disabled(chatPage, m.id)
       /\ chatPage' = [chatPage EXCEPT
            !.clicks = @ + 1,
            !.updatingMessageId = m.id,
            !.patches = Append([j \in DOMAIN @ |-> [@[j] EXCEPT !.latest = FALSE]],
                               [id |-> m.id, saveToVector |-> ~m.savedToVector,
                                pc |-> "sent", latest |-> TRUE])]
  /\ UNCHANGED <<routeVars, milvusVars, evalVars, exceptChatPage>>

\* routes.ts:146-158  the PATCH reaches its handler: 404 when the array has
\* no such message, else the flag of the assistant message is set, before
\* the handler's calls to the vector store.
PagePatchArrive ==
  /\ \E i \in 1..Len(chatPage.patches) :
       LET t == chatPage.patches[i] IN
       /\ t.pc = "sent"
       /\ chatPage' = [chatPage EXCEPT
            !.patches[i].pc = IF Found(chatPage.server, t.id) = <<>> THEN "missing"
                              ELSE "handled",
            !.server = [j \in DOMAIN @ |->
                          IF @[j].id = t.id /\ @[j].role = "assistant"
                            THEN [@[j] EXCEPT !.savedToVector = t.saveToVector]
                          ELSE @[j]]]
  /\ UNCHANGED <<routeVars, milvusVars, evalVars, exceptChatPage>>

\* routes.ts:152-153, 160-210, chat.tsx:132-152  the handler answers 200, or
\* 404, or 500 when a call of the save threw; the response reaches the page:
\* onSuccess and onError reset updatingMessageId (0 for undefined), onSuccess
\* invalidates the query, onError does not.
PagePatchReturn ==
  /\ \E i \in 1..Len(chatPage.patches), ok \in BOOLEAN :
       LET t == chatPage.patches[i] IN
       /\ t.pc \in {"handled", "missing"}
       /\ ok => t.pc = "handled"
       /\ ~ok /\ t.pc = "handled" => t.saveToVector
       /\ chatPage' = [chatPage EXCEPT
            !.patches = SubSeq(@, 1, i - 1) \o SubSeq(@, i + 1, Len(@)),
            !.updatingMessageId = 0,
            !.refetch = @ \/ ok]
  /\ UNCHANGED <<routeVars, milvusVars, evalVars, exceptChatPage>>

\* The page is opened on a server with no messages or with one exchange;
\* useQuery fetches the list.
InitChatPage ==
  \E server \in {<<>>, <<PageMessage(1, "q1", "user"), PageMessage(2, "a1", "assistant")>>} :
    chatPage = [message |-> "", pending |-> FALSE, posts |-> <<>>, cache |-> <<>>,
                refetch |-> TRUE, server |-> server, nextId |-> Len(server) + 1,
                cleared |-> {}, submits |-> 0, clicks |-> 0, updatingMessageId |-> 0,
                patches |-> <<>>]

NoChatPage ==
  chatPage = [message |-> "", pending |-> FALSE, posts |-> <<>>, cache |-> <<>>,
              refetch |-> FALSE, server |-> <<>>, nextId |-> 1,
              cleared |-> {}, submits |-> MaxSubmits, clicks |-> MaxPatches,
              updatingMessageId |-> 0, patches |-> <<>>]

NextChatPage ==
  \/ PageType \/ PageSubmit \/ PagePostArrive \/ PagePostAnswer \/ PagePostReturn
  \/ PageRefetch \/ PageClear \/ PageToggle \/ PagePatchArrive \/ PagePatchReturn

\* ------------------------------------------ part_009: the settings cache
CacheSlots == {1, 2}

IdleCacheSet == [pc |-> "idle", key |-> "", value |-> "", snapshot |-> <<>>]

CacheSetInProgress(c) == c.pc \in {"upsert", "upserted", "select", "reply"}

\* part_009:272-277  settingsCache = {} and one assignment per row read.
Reloaded(cache, rows) == AssignRows(rows, EmptySettings)

\* part_009:314-316  setSetting(key, value) sends its upsert.
CacheSetStart(k) ==
  /\ settingsCache.left > 0
  /\ ~CacheSetInProgress(settingsCache.calls[k])
  /\ \E key \in {"model", "temperature"}, value \in SettingValues :
       settingsCache' = [settingsCache EXCEPT
         !.calls[k] = [IdleCacheSet EXCEPT !.pc = "upsert", !.key = key, !.value = value],
         !.left = @ - 1]
  /\ UNCHANGED <<routeVars, milvusVars, evalVars, exceptSettingsCache>>

\* part_009:316-325  the database executes the upsert; its answer is still
\* on its way.
CacheUpsertRun(k) ==
  /\ settingsCache.calls[k].pc = "upsert"
  /\ LET c == settingsCache.calls[k] IN
     settingsCache' = [settingsCache EXCEPT
       !.rows = Upsert(@, settingsCache.nextId, c.key, c.value),
       !.nextId = @ + 1,
       !.calls[k].pc = "upserted"]
  /\ UNCHANGED <<routeVars, milvusVars, evalVars, exceptSettingsCache>>

\* part_009:316-331, 296-298, 269-271  the answer of the upsert arrives and
\* invalidateSettingsCache sends the SELECT of loadSettingsToCache; or the
\* upsert fails (before the statement ran, or after it with the answer lost)
\* and setSetting rethrows.
CacheUpsertReturn(k) ==
  /\ settingsCache.calls[k].pc \in {"upsert", "upserted"}
  /\ \E ok \in BOOLEAN :
       /\ ok => settingsCache.calls[k].pc = "upserted"
       /\ settingsCache' = [settingsCache EXCEPT
            !.calls[k].pc = IF ok THEN "select" ELSE "rejected"]
  /\ UNCHANGED <<routeVars, milvusVars, evalVars, exceptSettingsCache>>

\* part_009:271  the database runs the SELECT: the rows it will answer with.
CacheSelectRun(k) ==
  /\ settingsCache.calls[k].pc = "select"
  /\ settingsCache' = [settingsCache EXCEPT
       !.calls[k].pc = "reply", !.calls[k].snapshot = settingsCache.rows]
  /\ UNCHANGED <<routeVars, milvusVars, evalVars, exceptSettingsCache>>

\* part_009:271-283, 328-331  the rows arrive and the cache is rebuilt from
\* them, or the query throws and setSetting rethrows with the cache as it was.
CacheSelectReturn(k) ==
  /\ settingsCache.calls[k].pc = "reply"
  /\ \E ok \in BOOLEAN :
       LET c == settingsCache.calls[k] IN
       settingsCache' =
         IF ok
           THEN [settingsCache EXCEPT
                   !.cache = Reloaded(@, c.snapshot),
                   !.cacheInitialized = TRUE,
                   !.calls[k].pc = "resolved"]
           ELSE [settingsCache EXCEPT !.calls[k].pc = "rejected"]
  /\ UNCHANGED <<routeVars, milvusVars, evalVars, exceptSettingsCache>>

\* part_009:288-293  getAllSettingsFromCache: a copy of the cache, a throw
\* (Undefined here) when it was never loaded.
GetAllSettingsFromCache(sc) == IF ~sc.cacheInitialized THEN Undefined ELSE sc.cache

\* part_009:241-255  the table initializeDatabase of this iteration leaves
\* on an empty database: four defaults.
CacheDefaultRows ==
  <<SettingRow(1, "systemPrompt", "You are a helpful AI assistant."),
    SettingRow(2, "model", "gpt-4o-mini"),
    SettingRow(3, "temperature", "1.0"),
    SettingRow(4, "maxTokens", "2048")>>

\* part_009:236-261  initializeDatabase has found an empty table and
\* inserted its defaults, or found a table with a setting and left it, and
\* has loaded the cache from the table.
InitSettingsCache ==
  \E rows \in {CacheDefaultRows, <<SettingRow(1, "model", "gpt-4o-mini")>>} :
    settingsCache = [rows |-> rows, nextId |-> Len(rows) + 1,
                     cache |-> Reloaded(EmptySettings, rows), cacheInitialized |-> TRUE,
                     calls |-> [k \in CacheSlots |-> IdleCacheSet],
                     left |-> MaxCacheSets]

NoSettingsCache ==
  settingsCache = [rows |-> <<>>, nextId |-> 1, cache |-> EmptySettings,
                   cacheInitialized |-> FALSE,
                   calls |-> [k \in CacheSlots |-> IdleCacheSet], left |-> 0]

NextSettingsCache ==
  \E k \in CacheSlots :
    \/ CacheSetStart(k) \/ CacheUpsertRun(k) \/ CacheUpsertReturn(k)
    \/ CacheSelectRun(k) \/ CacheSelectReturn(k)

NoUnits ==
  /\ NoPinecone /\ NoPostPair /\ NoSettingsTable /\ NoStorages /\ NoChatPage
  /\ NoSettingsCache

\* ------------------------------------------------------ specification
InitRoutes ==
  /\ chatMessages = <<>>
  /\ heap = <<>>
  /\ vecStore = {}
  /\ qdrantConnected \in BOOLEAN
  /\ settings \in {DefaultSettings, EmptySettings}
  /\ reqs = [r \in Reqs |-> IdleReq]
  /\ started = 0

\* No request is received.
NoRoutes ==
  /\ chatMessages = <<>>
  /\ heap = <<>>
  /\ vecStore = {}
  /\ qdrantConnected = FALSE
  /\ settings = DefaultSettings
  /\ reqs = [r \in Reqs |-> IdleReq]
  /\ started = 0
  /\ quota = 0

NoEval == evalCall = IdleEval /\ evalLeft = 0

Init == InitRoutes /\ quota = MaxReq /\ NoMilvus /\ NoEval /\ NoUnits

\* The handlers that read or write chatMessages.
NextMessages ==
  \/ \E r \in Reqs : GetMessages(r)
  \/ \E r \in Reqs : PostStart(r)
  \/ \E r \in Reqs : PostEmbedReturn(r)
  \/ \E r \in Reqs : PostSearchReturn(r)
  \/ \E r \in Reqs : PostSettingsReturn(r)
  \/ \E r \in Reqs : PostGenerateReturn(r)
  \/ \E r \in Reqs : BgEmbedReturn(r)
  \/ \E r \in Reqs : BgInsertReturn(r)
  \/ \E r \in Reqs : PatchStart(r)
  \/ \E r \in Reqs : PatchEmbedReturn(r)
  \/ \E r \in Reqs : PatchInsertReturn(r)
  \/ \E r \in Reqs : UnsaveEmbedReturn(r)
  \/ \E r \in Reqs : UnsaveSearchReturn(r)
  \/ \E r \in Reqs : UnsaveDeleteReturn(r)
  \/ \E r \in Reqs : ClearDatabase(r)

\* The other /api handlers.
NextOther ==
  \/ \E r \in Reqs : SearchSimilarStart(r)
  \/ \E r \in Reqs : SearchSimilarEmbedReturn(r)
  \/ \E r \in Reqs : SearchSimilarReturn(r)
  \/ \E r \in Reqs : StatusStart(r)
  \/ \E r \in Reqs : StatusReturn(r)
  \/ \E r \in Reqs : StatsStart(r)
  \/ \E r \in Reqs : StatsReturn(r)
  \/ \E r \in Reqs : ReadSettingsStart(r)
  \/ \E r \in Reqs : ReadSettingsReturn(r)
  \/ \E r \in Reqs : WriteSettingsStart(r)
  \/ \E r \in Reqs : WriteSettingsReturn(r)

Next == NextMessages \/ NextOther

\* The message handlers alone, over MaxReq requests.
Spec == Init /\ [][NextMessages]_vars

\* Every external call returns or throws in the end, and Node runs the
\* continuation: each request's pending step is taken.
Return(r) ==
  \/ PostEmbedReturn(r) \/ PostSearchReturn(r) \/ PostSettingsReturn(r)
  \/ PostGenerateReturn(r) \/ BgEmbedReturn(r) \/ BgInsertReturn(r)
  \/ PatchEmbedReturn(r) \/ PatchInsertReturn(r)
  \/ UnsaveEmbedReturn(r) \/ UnsaveSearchReturn(r) \/ UnsaveDeleteReturn(r)
  \/ SearchSimilarEmbedReturn(r) \/ SearchSimilarReturn(r)
  \/ StatusReturn(r) \/ StatsReturn(r) \/ ReadSettingsReturn(r)
  \/ WriteSettingsReturn(r)

InitLive == InitRoutes /\ quota = MaxReqLive /\ NoMilvus /\ NoEval /\ NoUnits

\* All the /api handlers, over MaxReqLive requests, with that fairness.
FairSpec == InitLive /\ [][Next]_vars /\ \A r \in Reqs : WF_vars(Return(r))

\* The MilvusService alone, over MaxMilvusCalls inserts and searches.
InitMilvusService ==
  InitMilvus /\ milvusLeft = MaxMilvusCalls /\ NoRoutes /\ NoEval /\ NoUnits

MilvusSpec == InitMilvusService /\ [][NextMilvus]_vars

InitEvaluator ==
  evalCall = IdleEval /\ evalLeft = MaxEvals /\ NoRoutes /\ NoMilvus /\ NoUnits

\* The memory evaluator alone, over MaxEvals calls.
EvalSpec == InitEvaluator /\ [][NextEval]_vars

InitPineconeService ==
  /\ InitPinecone /\ NoRoutes /\ NoMilvus /\ NoEval
  /\ NoPostPair /\ NoSettingsTable /\ NoStorages /\ NoChatPage /\ NoSettingsCache

\* PineconeService.connect alone, over MaxConnects calls.
PineconeSpec == InitPineconeService /\ [][NextPinecone]_vars

InitPostPairs ==
  /\ InitPostPair /\ NoRoutes /\ NoMilvus /\ NoEval
  /\ NoPinecone /\ NoSettingsTable /\ NoStorages /\ NoChatPage /\ NoSettingsCache

\* Two POST /api/messages requests read one settings table.
PostPairSpec == InitPostPairs /\ [][NextPostPair]_vars

InitSettings ==
  /\ InitSettingsTable /\ NoRoutes /\ NoMilvus /\ NoEval
  /\ NoPinecone /\ NoPostPair /\ NoStorages /\ NoChatPage /\ NoSettingsCache

\* setSetting calls on the table settings.
SettingsTableSpec == InitSettings /\ [][NextSettingsTable]_vars

InitStorage ==
  /\ InitStorages /\ NoRoutes /\ NoMilvus /\ NoEval
  /\ NoPinecone /\ NoPostPair /\ NoSettingsTable /\ NoChatPage /\ NoSettingsCache

\* The same calls made on a MemStorage and on a DatabaseStorage.
StorageSpec == InitStorage /\ [][NextStorages]_vars

InitPage ==
  /\ InitChatPage /\ NoRoutes /\ NoMilvus /\ NoEval
  /\ NoPinecone /\ NoPostPair /\ NoSettingsTable /\ NoStorages /\ NoSettingsCache

\* One browser page and the server's message array.
PageSpec == InitPage /\ [][NextChatPage]_vars

InitCache ==
  /\ InitSettingsCache /\ NoRoutes /\ NoMilvus /\ NoEval
  /\ NoPinecone /\ NoPostPair /\ NoSettingsTable /\ NoStorages /\ NoChatPage

\* setSetting calls on the table settings and its cache.
CacheSpec == InitCache /\ [][NextSettingsCache]_vars

\* ------------------------------------------------------------ properties
IsPost(rq) == rq.kind = "POST_messages"

IsPatch(rq) == rq.kind = "PATCH_vector_save"

Answered(rq, status) ==
  rq.pc = "done" /\ Len(rq.resp) = 1 /\ rq.resp[1].status = status

\* Slot r received a request in this step.
Arrived(r) == started' = started + 1 /\ reqs'[r].pc # "idle" /\ Free(reqs[r])

\* C1: a POST /api/messages whose content is a non-empty string and whose
\* generation call returned is answered 200 with the user message (role
\* user, the request's content) and the assistant message (role assistant,
\* the generated text); the handler appended exactly these two messages to
\* chatMessages, the user message first.
C1_PostReturnsExchange ==
  \A r \in Reqs :
    LET rq == reqs[r] IN
    (IsPost(rq) /\ ContentOk(rq.body.content) /\ rq.last = "gen_ok") =>
      /\ Answered(rq, 200)
      /\ rq.resp[1].body.userMessage.role = "user"
      /\ rq.resp[1].body.userMessage.content = rq.body.content.v
      /\ rq.resp[1].body.assistantMessage.role = "assistant"
      /\ rq.resp[1].body.assistantMessage.content = rq.gen
      /\ rq.appended = <<rq.resp[1].body.userMessage.id,
                         rq.resp[1].body.assistantMessage.id>>
      /\ rq.appended[1] # rq.appended[2]
      /\ heap[rq.appended[1]].role = "user"
      /\ heap[rq.appended[2]].content = rq.gen
      /\ (rq.appended[1] \in Range(chatMessages) /\ rq.appended[2] \in Range(chatMessages))
           => IndexOf(chatMessages, rq.appended[1]) < IndexOf(chatMessages, rq.appended[2])

C1_Witness ==
  \E r \in Reqs :
    /\ IsPost(reqs[r]) /\ reqs[r].last = "gen_ok" /\ Answered(reqs[r], 200)
    /\ chatMessages = reqs[r].appended
    /\ Len(chatMessages) = 2
    /\ heap[chatMessages[2]].content = "a2"

\* C2: a PATCH vector-save with saveToVector true on an existing assistant
\* message, once answered 200, has called insertVector exactly once,
\* wherever the message stands in chatMessages.
C2_PatchSaveInsertsOnce ==
  \A r \in Reqs :
    LET rq == reqs[r] IN
    (IsPatch(rq) /\ rq.body.saveToVector /\ Answered(rq, 200)
       /\ rq.resp[1].body.role = "assistant") => rq.inserts = 1

\* C3: a POST /api/messages with saveToVector true whose generation returned
\* is answered 200, once, with savedToVector true on the assistant message,
\* whatever becomes of the background embedding and insert.
C3_SavedBeforeStored ==
  \A r \in Reqs :
    LET rq == reqs[r] IN
    (IsPost(rq) /\ rq.last = "gen_ok" /\ rq.body.saveToVector) =>
      /\ rq.bg \in {"embed", "insert", "ok", "failed"}
      /\ Answered(rq, 200)
      /\ rq.resp[1].body.assistantMessage.savedToVector = TRUE

\* The background save failed, the client was told 200 with the flag set, the
\* message is still flagged in chatMessages, and the store has no record.
C3_Witness ==
  \E r \in Reqs :
    /\ IsPost(reqs[r]) /\ reqs[r].bg = "failed" /\ Answered(reqs[r], 200)
    /\ reqs[r].resp[1].body.assistantMessage.savedToVector = TRUE
    /\ reqs[r].asst \in Range(chatMessages)
    /\ heap[reqs[r].asst].savedToVector = TRUE
    /\ vecStore = {}

\* C4: when DELETE /api/clear-database answers 200, the vector store has no
\* record and chatMessages is empty.
C4_ClearEmptiesStoreAndChat ==
  [][\A r \in Reqs :
       (Arrived(r) /\ reqs'[r].kind = "DELETE_clear_database"
          /\ Answered(reqs'[r], 200))
       => (vecStore' = {} /\ chatMessages' = <<>>)]_vars

\* C5: no step changes the id, content, role, timestamp or sources of a
\* message object; a step that changes a message changes its savedToVector
\* flag, and it is the arrival of a PATCH vector-save for that message, which
\* is an assistant message.
C5_OnlyFlagMutated ==
  [][\A id \in (DOMAIN heap) \cap (DOMAIN heap') :
       /\ heap'[id].id = heap[id].id
       /\ heap'[id].content = heap[id].content
       /\ heap'[id].role = heap[id].role
       /\ heap'[id].timestamp = heap[id].timestamp
       /\ heap'[id].sources = heap[id].sources
       /\ (heap'[id] # heap[id]) =>
            /\ heap[id].role = "assistant"
            /\ \E r \in Reqs :
                 /\ Arrived(r) /\ IsPatch(reqs'[r])
                 /\ reqs'[r].target = id
                 /\ heap'[id].savedToVector = reqs'[r].body.saveToVector]_vars

\* A PATCH cleared the flag of an assistant message that its POST had set.
C5_Witness ==
  \E r \in Reqs :
    /\ IsPatch(reqs[r]) /\ reqs[r].pc # "start"
    /\ reqs[r].target \in Range(chatMessages)
    /\ heap[reqs[r].target].role = "assistant"
    /\ heap[reqs[r].target].savedToVector = FALSE
    /\ \E q \in Reqs : IsPost(reqs[q]) /\ reqs[q].asst = reqs[r].target
                       /\ reqs[q].body.saveToVector

\* C6: in POST /api/messages a throw of the embedding or of the search is
\* swallowed: no response is sent, the previous conversations are empty, the
\* generation is called with no context, and the request is answered 200 when
\* the generation returns; a throw of the settings read or of the
\* generation is answered 500 "Failed to process message".
C6_SearchSwallowedOthersFail ==
  [][\A r \in Reqs :
       LET a == reqs[r]
           b == reqs'[r]
       IN (IsPost(a) /\ a # b) =>
            /\ (a.pc \in {"embed", "search"}
                  /\ b.last \in {"embed_throw", "search_throw"})
                 => (b.pc = "settings" /\ b.prev = <<>> /\ b.resp = <<>>)
            /\ (a.pc = "settings" /\ a.last \in {"embed_throw", "search_throw"}
                  /\ b.pc = "generate")
                 => b.call.input.context = <<>>
            /\ (a.pc = "generate" /\ b.last = "gen_ok") => Answered(b, 200)
            /\ (a.pc \in {"settings", "generate"}
                  /\ b.last \in {"settings_throw", "gen_throw"})
                 => /\ Answered(b, 500)
                    /\ b.resp[1].body = [message |-> "Failed to process message"]]_vars

\* The search threw although the store held a conversation similar to the
\* query, and the handler went on to the settings with none.
C6_Witness ==
  \E r \in Reqs :
    /\ IsPost(reqs[r]) /\ reqs[r].pc = "settings" /\ reqs[r].last = "search_throw"
    /\ reqs[r].prev = <<>>
    /\ QdrantSearch(vecStore, Embedding(reqs[r].body.content.v), 70, 3) # <<>>

\* C7: a request never has more than one response, a response once sent is
\* not changed, and every request in progress is answered in the end.
C7_ExactlyOneResponse ==
  /\ [](\A r \in Reqs : Len(reqs[r].resp) <= 1
                        /\ (reqs[r].pc = "done" <=> Len(reqs[r].resp) = 1))
  /\ [][\A r \in Reqs : (reqs[r].resp # <<>> /\ ~Arrived(r) /\ reqs'[r] # IdleReq)
                          => reqs'[r].resp = reqs[r].resp]_vars
  /\ \A r \in Reqs :
       (reqs[r].pc \notin {"idle", "done"}) ~> (reqs[r].pc = "done" /\ Len(reqs[r].resp) = 1)

\* A POST answered 200 whose background save went on and failed afterwards:
\* still one response.
C7_Witness ==
  \E r \in Reqs :
    /\ IsPost(reqs[r]) /\ reqs[r].bg = "failed"
    /\ Len(reqs[r].resp) = 1 /\ reqs[r].resp[1].status = 200

\* C8: within one POST /api/messages the steps come in the order embedding,
\* search, settings and generation, response: the search is called only
\* when the embedding returned, the generation only after the embedding and
\* the search returned or threw, and the 200 response only when the
\* generation returned.
C8_PostStepOrder ==
  [][\A r \in Reqs :
       LET a == reqs[r]
           b == reqs'[r]
       IN (IsPost(b) /\ a.pc # b.pc) =>
            /\ b.pc = "embed" => Arrived(r)
            /\ b.pc = "search" => (a.pc = "embed" /\ b.last = "embed_ok")
            /\ b.pc = "settings" =>
                 \/ (a.pc = "embed" /\ b.last \in {"embed_throw", "search_throw"})
                 \/ (a.pc = "search" /\ b.last \in {"search_ok", "search_throw"})
            /\ b.pc = "generate" => (a.pc = "settings" /\ b.call # Undefined)
            /\ (b.pc = "done" /\ b.resp[1].status = 200) =>
                 (a.pc = "generate" /\ b.last = "gen_ok")]_vars

\* A POST answered 200 whose search returned a conversation that the
\* generation call received.
C8_Witness ==
  \E r \in Reqs :
    /\ IsPost(reqs[r]) /\ Answered(reqs[r], 200)
    /\ reqs[r].prev # <<>>
    /\ reqs[r].call.input.context # <<>>


\* C9: a searchSimilar call that has returned took the in-memory scan exactly
\* when the service was not connected or the Milvus search threw; otherwise
\* it returned the rows Milvus gave, mapped and filtered by the threshold,
\* whatever inMemoryVectors held.
C9_InMemoryOnlyWhenUnavailable ==
  LET call == milvusCalls.search IN
  call.pc = "done" =>
    /\ call.path \in {"memory", "milvus"}
    /\ call.path = "memory" <=> (~call.connected \/ call.threw)
    /\ call.path = "milvus" =>
         /\ Len(call.out) <= Len(call.results)
         /\ \A i \in 1..Len(call.out) :
              /\ call.out[i].similarity >= call.threshold
              /\ \E j \in 1..Len(call.results) :
                   /\ call.out[i].id = call.results[j].id
                   /\ call.out[i].similarity = Max(0, 100 - call.results[j].score)
         /\ \A j \in 1..Len(call.results) :
              (100 - call.results[j].score >= call.threshold)
                => \E i \in 1..Len(call.out) : call.out[i].id = call.results[j].id

\* A search answered by Milvus with no result while inMemoryVectors held a
\* vector the scan would have returned.
C9_Witness ==
  LET call == milvusCalls.search IN
  /\ call.pc = "done" /\ call.path = "milvus" /\ call.out = <<>>
  /\ InMemoryScan(inMemoryVectors, call.queryEmbedding, call.threshold, call.limit) # <<>>

\* C10: evaluateMemoryValue resolves and never rejects, with an action among
\* auto_save, prompt_user and skip; when the generation call failed, the
\* reply is not valid JSON or its action is not one of the three, the decision
\* is that of fallbackEvaluation on the same inputs.  This holds for the way
\* the call settled and for every other way a generation call can settle.
C10_EvaluatorFallsBack ==
  evalCall.pc = "done" =>
    LET q == evalCall.userQuery
        a == evalCall.aiResponse
        c == evalCall.context
        bad(e) == \/ ~e.ok
                  \/ ~JsonParse(e.content).ok
                  \/ JsonParse(e.content).value.t # "object"
                  \/ JsonParse(e.content).value.action.t # "string"
                  \/ JsonParse(e.content).value.action.v \notin MemoryActions
    IN /\ evalCall.result = EvaluateMemoryValue(q, a, c, evalCall.evaluation)
       /\ \A e \in AllEvaluations \cup {evalCall.evaluation} :
            LET r == EvaluateMemoryValue(q, a, c, e) IN
            /\ ~r.threw
            /\ r.decision.action \in MemoryActions
            /\ bad(e) => r.decision = FallbackEvaluation(q, a, c)

\* The generation call failed on a long answer given with context, and the
\* decision is the fallback's prompt_user.
C10_Witness ==
  /\ evalCall.pc = "done"
  /\ ~evalCall.evaluation.ok
  /\ ~evalCall.result.threw
  /\ evalCall.result.decision = FallbackEvaluation(evalCall.userQuery, evalCall.aiResponse,
                                                   evalCall.context)
  /\ evalCall.result.decision.confidence = 6

\* C11: a connect call with a client that found the retry counter at 0 and
\* ran alone makes at most 3 attempts; it waits after its first and second
\* failures, 2 then 4 seconds, and retries; it rejects only after its third
\* failure, with isConnected false; when it resolves, an attempt succeeded,
\* isConnected is true and the counter is back at 0.
C11_ConnectAtMostThreeAttempts ==
  \A k \in ConnectSlots :
    LET c == pinecone.calls[k] IN
    (pinecone.client /\ c.pc # "idle" /\ c.found = 0 /\ ~c.overlapped) =>
      /\ c.attempts \in 1..3
      /\ c.waits \in {<<>>, <<2000>>, <<2000, 4000>>}
      /\ c.pc = "attempt" => Len(c.waits) = c.attempts - 1
      /\ c.pc = "backoff" => (Len(c.waits) = c.attempts /\ c.attempts \in {1, 2})
      /\ c.pc = "rejected" =>
           (c.attempts = 3 /\ Len(c.waits) = 2 /\ ~pinecone.isConnected
              /\ pinecone.connectionRetries = 3)
      /\ c.pc = "resolved" =>
           (Len(c.waits) = c.attempts - 1 /\ pinecone.isConnected
              /\ pinecone.connectionRetries = 0)

\* A call that connected at its third attempt, after two waits.
C11_Witness ==
  \E k \in ConnectSlots :
    LET c == pinecone.calls[k] IN
    /\ pinecone.client /\ c.found = 0 /\ ~c.overlapped
    /\ c.pc = "resolved" /\ c.attempts = 3 /\ c.waits = <<2000, 4000>>
    /\ pinecone.isConnected /\ pinecone.connectionRetries = 0

\* C12: two POST /api/messages requests with the same content whose
\* settings reads returned the same settings take the same step, and when
\* that is a generation call it is the same call with the same model,
\* temperature and max tokens, whatever model, temperature or maxTokens
\* their bodies carry; those three are the ones the settings table gives.
C12_OptionsFromSettingsOnly ==
  LET a == postPair.step[1]
      b == postPair.step[2]
  IN (/\ postPair.pc[1] = "done" /\ postPair.pc[2] = "done"
      /\ postPair.read[1] /\ postPair.read[2]
      /\ postPair.body[1].content = postPair.body[2].content) =>
       /\ a = b
       /\ a.status = 0 =>
            /\ a.options = OptionsOf(postPair.settings)
            /\ a.call.model = postPair.settings["model"]
            /\ Number(a.call.max_output_tokens) = ParseInt(Str(postPair.settings["maxTokens"]))

C12_Witness ==
  /\ postPair.pc[1] = "done" /\ postPair.pc[2] = "done"
  /\ postPair.read[1] /\ postPair.read[2]
  /\ postPair.body[1].content = postPair.body[2].content
  /\ postPair.body[1].model = Undefined /\ postPair.body[2].model = Str("gpt-4")
  /\ postPair.body[1].temperature # postPair.body[2].temperature
  /\ postPair.body[1].maxTokens # postPair.body[2].maxTokens
  /\ postPair.step[1].status = 0 /\ postPair.step[2].status = 0
  /\ postPair.step[2].call.model = "gpt-4o-mini"

\* C13: setting keys are unique and the last write wins: at every moment
\* each key has one row at most, getAllSettings returns for each key whose
\* statement ran the value of the setSetting statement the database ran
\* last for it (for the calls still on record: the value of the call whose
\* statement has the highest serial), and keys never written keep the value
\* they had.
C13_SettingsLastWriteWins ==
  LET t == settingsTable
      all == GetAllSettings(t.rows)
  IN /\ \A key \in SettingKeys : Cardinality(RowsOf(t.rows, key)) <= 1
     /\ all = t.expect
     /\ \A key \in SettingKeys \ t.written :
          Get(all, key) = Get(t.initial, key)
     /\ (t.left = MaxSets - Cardinality({j \in SetSlots : t.calls[j].pc # "idle"}))
          => \A k \in SetSlots :
               LET c == t.calls[k] IN
               (c.serial > 0
                  /\ \A j \in SetSlots \ {k} :
                       t.calls[j].key = c.key => t.calls[j].serial < c.serial)
                 => Get(all, c.key) = Str(c.value)

\* Two completed calls for the same key on the default table, the second
\* statement run last: one row for the key, holding the second value.
C13_Witness ==
  LET t == settingsTable IN
  /\ t.calls[1].pc = "resolved" /\ t.calls[2].pc = "resolved"
  /\ t.calls[1].key = "model" /\ t.calls[2].key = "model"
  /\ t.calls[1].value = "v1" /\ t.calls[2].value = "v2"
  /\ t.calls[1].serial < t.calls[2].serial
  /\ Len(t.rows) = 6
  /\ GetAllSettings(t.rows)["model"] = "v2"
  /\ GetAllSettings(t.rows)["temperature"] = "1.0"

\* C14: for the same createChatMessage and updateChatMessage calls,
\* getChatMessages(limit) returns the same messages in the same order from
\* MemStorage and from DatabaseStorage, also when more than limit messages
\* are stored.
C14_MemStorageMatchesDatabase ==
  storages.got # NoGet => storages.got.mem = storages.got.db

\* C15: when a PATCH vector-save with saveToVector = false on an assistant
\* message that follows a user message is answered 200 with savedToVector
\* false, the vector store holds no record whose query and response are
\* those of the exchange, also when the exchange was saved more than once
\* or the search or the delete failed.
C15_UnsaveRemovesExchange ==
  [][\A r \in Reqs :
       LET a == reqs[r]
           b == reqs'[r]
       IN (/\ IsPatch(a) /\ a.pc \in {"uembed", "usearch", "udelete"}
           /\ IsPatch(b) /\ Answered(b, 200)
           /\ b.resp[1].body.role = "assistant"
           /\ b.resp[1].body.savedToVector = FALSE) =>
            \A p \in vecStore' :
              ~(p.query = b.query /\ p.response = b.resp[1].body.content)]_vars

\* C16: once the user has pressed Clear, the messages that were cleared
\* are never listed again, also after the refetch of /api/messages that
\* follows a send or a toggle of a save flag.
C16_ClearedNeverReappear ==
  ServerIds(chatPage.cache) \cap chatPage.cleared = {}

\* C17: the page never has two POST /api/messages requests in flight;
\* handleSubmit sends nothing while a send is pending or when the trimmed
\* message is empty, and otherwise sends the trimmed text once and clears
\* the input.
C17_SingleRequestPerTurn ==
  /\ [](Cardinality({i \in 1..Len(chatPage.posts) : chatPage.posts[i].pc # "done"}) <= 1)
  /\ [][chatPage'.submits = chatPage.submits + 1 =>
          IF Trim(chatPage.message) = "" \/ chatPage.pending
            THEN chatPage'.posts = chatPage.posts /\ chatPage'.message = chatPage.message
            ELSE /\ chatPage'.posts =
                      Append(chatPage.posts, [content |-> Trim(chatPage.message), pc |-> "sent"])
                 /\ chatPage'.message = ""
                 /\ chatPage'.pending]_vars

\* A second turn was sent after the first was answered, and a submit was
\* ignored on the way.
C17_Witness ==
  /\ Len(chatPage.posts) = 2
  /\ chatPage.posts[1].pc = "done" /\ chatPage.posts[2].pc = "sent"
  /\ chatPage.posts[2].content = "q2"
  /\ chatPage.submits = 3
  /\ chatPage.message = ""

\* C18: every assistant message in chatMessages is immediately preceded by
\* the user message of the POST request that produced it, so the element
\* before it, which PATCH vector-save takes as its query, is the query that
\* produced it; also when two POST /api/messages requests overlap.
C18_AssistantFollowsItsUser ==
  \A r \in Reqs :
    LET rq == reqs[r]
        idx == IndexOf(chatMessages, rq.asst)
    IN (IsPost(rq) /\ rq.asst # 0 /\ idx > 0) =>
         /\ idx > 1
         /\ chatMessages[idx - 1] = rq.user
         /\ UserMessageBefore(chatMessages, heap, rq.asst) = rq.user
         /\ heap[rq.user].content = rq.body.content.v

\* C19: a PATCH vector-save with saveToVector = true that is answered 500
\* because the embedding or the insert failed leaves the savedToVector flag
\* of the message at the value it had before the request (no other request
\* on that message being in progress).
C19_FailedSaveRestoresFlag ==
  \A r \in Reqs :
    LET rq == reqs[r] IN
    (/\ IsPatch(rq) /\ rq.body.saveToVector /\ Answered(rq, 500)
     /\ rq.last \in {"embed_throw", "insert_throw"}
     /\ rq.target \in DOMAIN heap
     /\ \A q \in Reqs \ {r} : reqs[q].target # rq.target /\ reqs[q].asst # rq.target) =>
       heap[rq.target].savedToVector = rq.was

\* C20: a POST /api/messages answered 400 (no content, or a setting
\* missing) or 500 (settings read or generation failed) leaves chatMessages
\* as it was before the request: its handler has appended nothing.
C20_FailedPostLeavesChat ==
  \A r \in Reqs :
    LET rq == reqs[r] IN
    (IsPost(rq) /\ (Answered(rq, 400) \/ Answered(rq, 500))) =>
      /\ rq.appended = <<>>
      /\ rq.user \notin Range(chatMessages)

\* C21: a PATCH vector-save whose id matches no message is answered 404,
\* and one on a user message is answered 200 with the message as it was;
\* in both cases chatMessages, its messages and the vector store are left
\* alone and the handler returns without an embedding, insert, search or
\* delete call.
C21_PatchWithoutEffect ==
  [][\A r \in Reqs :
       LET b == reqs'[r] IN
       (/\ Arrived(r) /\ IsPatch(b)
        /\ (b.target \notin Range(chatMessages) \/ heap[b.target].role = "user")) =>
         /\ IF b.target \notin Range(chatMessages)
              THEN Answered(b, 404)
              ELSE Answered(b, 200) /\ b.resp[1].body = heap[b.target]
         /\ chatMessages' = chatMessages
         /\ \A id \in Range(chatMessages) : heap'[id] = heap[id]
         /\ vecStore' = vecStore
         /\ b.last = "" /\ b.inserts = 0 /\ b.bg = "none"]_vars

\* A PATCH asking to save a user message was answered 200 and the message
\* has no flag.
C21_Witness ==
  \E r \in Reqs :
    /\ IsPatch(reqs[r]) /\ reqs[r].body.saveToVector
    /\ reqs[r].target \in Range(chatMessages)
    /\ heap[reqs[r].target].role = "user"
    /\ Answered(reqs[r], 200)
    /\ "savedToVector" \notin DOMAIN heap[reqs[r].target]
    /\ reqs[r].last = ""

\* C22: whenever no setSetting call is in progress, getAllSettingsFromCache
\* returns exactly the key/value pairs the table holds, also after two
\* setSetting calls ran concurrently and their reloads overlapped.
C22_CacheMatchesTable ==
  (\A k \in CacheSlots : ~CacheSetInProgress(settingsCache.calls[k])) =>
    GetAllSettingsFromCache(settingsCache) = GetAllSettings(settingsCache.rows)

\* C23: while Milvus is not connected, after every completed insertVector
\* and clearCollection the in-memory vector list and the table
\* vector_responses hold the same set of vector ids, also when a database
\* write or delete failed and when the constructor's load from the database
\* completes after an insert.
C23_MemoryMatchesTable ==
  (/\ ~client
   /\ milvusCalls.insert.pc \in {"done", "threw"} \/ milvusCalls.clear = "done"
   /\ milvusCalls.insert.pc \notin {"insert", "flush", "store", "stored"}
   /\ milvusCalls.clear \notin {"drop", "delete", "deleted"}
   /\ milvusCalls.load = "done") =>
    {inMemoryVectors[i].id : i \in 1..Len(inMemoryVectors)} =
      {vectorResponses[i].id : i \in 1..Len(vectorResponses)}

\* C24: the in-memory scan of searchSimilar(q, threshold, limit) returns
\* stored vectors whose similarity to q is at least threshold, each with
\* that similarity, in non-increasing order of similarity, as many as there
\* are such vectors up to limit; no vector left out for the limit has a
\* higher similarity than a returned one.
C24_InMemoryScanTopK ==
  [][LET call == milvusCalls'.search
         vectors == inMemoryVectors
         out == call.out
         sim(i) == CosineSimilarity(call.queryEmbedding, vectors[i].embedding)
         eligible == {i \in 1..Len(vectors) : sim(i) >= call.threshold}
     IN (call # milvusCalls.search /\ call.pc = "done" /\ call.path = "memory") =>
          /\ Len(out) = Min(call.limit, Cardinality(eligible))
          /\ \A k \in 1..(Len(out) - 1) : out[k].similarity >= out[k + 1].similarity
          /\ \E f \in [1..Len(out) -> eligible] :
               /\ \A k, l \in 1..Len(out) : k # l => f[k] # f[l]
               /\ \A k \in 1..Len(out) :
                    /\ out[k].id = vectors[f[k]].id
                    /\ out[k].embedding = vectors[f[k]].embedding
                    /\ out[k].similarity = sim(f[k])
               /\ \A i \in eligible \ {f[k] : k \in 1..Len(out)} :
                    \A k \in 1..Len(out) : out[k].similarity >= sim(i)]_vars

\* A scan with limit 1 returned the later of two stored vectors that both
\* pass the threshold, the one more similar to the query.
C24_Witness ==
  LET call == milvusCalls.search IN
  /\ call.pc = "done" /\ call.path = "memory" /\ call.limit = 1
  /\ Len(inMemoryVectors) = 2
  /\ \A i \in 1..2 :
       CosineSimilarity(call.queryEmbedding, inMemoryVectors[i].embedding) >= call.threshold
  /\ CosineSimilarity(call.queryEmbedding, inMemoryVectors[1].embedding)
       < CosineSimilarity(call.queryEmbedding, inMemoryVectors[2].embedding)
  /\ Len(call.out) = 1
  /\ call.out[1].id = inMemoryVectors[2].id

\* C25: whenever a connect() call of a PineconeService that has a client
\* returns without throwing, isConnected is true; for every call of any
\* sequence of calls, also one made after an earlier call used up its
\* retries and threw.
C25_ConnectReturnsConnected ==
  [][\A k \in ConnectSlots :
       (/\ pinecone.client
        /\ pinecone'.calls[k] # pinecone.calls[k]
        /\ pinecone'.calls[k].pc = "resolved") => pinecone'.isConnected]_vars

\* C26: the prompt of generateChatResponse holds the system prompt, then
\* the first min(n, 2) of the n previous conversations it is given, in
\* their order, then the query; a third conversation never reaches the
\* prompt although the search may return 3.
C26_PromptTakesFirstTwo ==
  \A i \in PairSlots :
    LET step == postPair.step[i]
        prev == postPair.prev
    IN (postPair.pc[i] = "done" /\ step.status = 0) =>
         LET input == step.call.input IN
         /\ input.system = postPair.settings["systemPrompt"]
         /\ input.query = postPair.body[i].content.v
         /\ Len(input.context) = (IF Len(prev) < 2 THEN Len(prev) ELSE 2)
         /\ \A k \in 1..Len(input.context) : input.context[k] = prev[k]
         /\ \A k \in 3..Len(prev) :
              \A j \in 1..Len(input.context) : input.context[j] # prev[k]

\* A generation call made with three previous conversations.
C26_Witness ==
  \E i \in PairSlots :
    /\ postPair.pc[i] = "done" /\ postPair.step[i].status = 0
    /\ Len(postPair.prev) = 3
    /\ Len(postPair.step[i].call.input.context) = 2
    /\ postPair.step[i].call.input.context[2] = postPair.prev[2]

====
